---- MODULE Spec2Model ----
(***************************************************************************)
(* Event store and ingestion endpoint of the CBMM demo.                    *)
(*                                                                         *)
(*   redis/record-{buy,sell,burn}-event.ts   the three record functions    *)
(*   redis/get-events.ts                     the query function getEvents  *)
(*   app/api/events/webhook/route.ts         the webhook handler POST      *)
(*   utils/parse-logs.ts                     the log decoder parseLogs     *)
(*   virtual-token-price.ts                  the curve calculator          *)
(*                                                                         *)
(* Redis keys are strings built with ':' between their parts; no part the  *)
(* program puts into a key holds a ':' (event kinds, base58 addresses,     *)
(* decimal timestamps), so a key is modelled as the sequence of its parts. *)
(* `undefined` strings are "" (both are falsy in the code's tests) and an  *)
(* `undefined` number is Undefined.                                        *)
(***************************************************************************)
EXTENDS Integers, Sequences, FiniteSets, TLC

\* ------------------------------------------------------------------ bounds
\* Record calls made in one behaviour of Spec.
MaxRecords == 3

\* Transaction records in one delivery of SpecIngest.
MaxBatch == 2

\* Input sets.
Pools == {"P1", "P2"}
Users == {"U1", "U2"}
\* The (pool, timestamp) pairs input events come with: three timestamps in one
\* pool, and a second pool that shares one of them.
Slots == {<<"P1", 10>>, <<"P1", 20>>, <<"P1", 30>>, <<"P2", 20>>}

\* How the server answers TS.ADD: "absent" (RedisTimeSeries is not loaded, the
\* command is unknown), "BLOCK" (the default duplicate policy: a sample at a
\* timestamp that holds one is an error) or "LAST" (a policy that accepts it).
TsModes == {"absent", "BLOCK", "LAST"}

\* --------------------------------------------------------------- constants
EventTypes == <<"buy", "sell", "burn">>
DefaultLimit == 100
Undefined == -1

Min(a, b) == IF a <= b THEN a ELSE b

\* =================================================================== events
\* The decoded events handed to the record functions (their bigint fields
\* are integers here).  An input event is fixed by its pool and its user; the
\* amounts are sample values.
BuyEvent(pool, buyer) ==
    [aInput |-> 1000, bOutput |-> 2500, creatorFees |-> 50, buybackFees |-> 10,
     platformFees |-> 1, topupPaid |-> 0, newBReserve |-> 7500, newAReserve |-> 4000,
     newOutstandingTopup |-> 0, newCreatorFeesBalance |-> 50,
     newBuybackFeesBalance |-> 10, pool |-> pool, buyer |-> buyer]

SellEvent(pool, seller) ==
    [bInput |-> 2500, aOutput |-> 900, creatorFees |-> 45, buybackFees |-> 9,
     platformFees |-> 1, topupPaid |-> 0, newBReserve |-> 10000, newAReserve |-> 3000,
     newOutstandingTopup |-> 0, newCreatorFeesBalance |-> 95,
     newBuybackFeesBalance |-> 19, pool |-> pool, seller |-> seller]

BurnEvent(pool, burner) ==
    [burnAmount |-> 300, topupAccrued |-> 12, newBReserve |-> 9700,
     newAReserve |-> 3000, newOutstandingTopup |-> 12, newVirtualReserve |-> 1988,
     newBuybackFeesBalance |-> 19, pool |-> pool, burner |-> burner]

\* ==================================================================== redis
\* The Redis database: string values, sorted sets and time series, each a
\* function from the keys that exist.
EmptyDb == [strings |-> <<>>, zsets |-> <<>>, series |-> <<>>]

\* JSON.stringify of a flat object of strings and numbers; JSON.parse gives
\* the object back when the text is well formed.
JsonStringify(obj) == [wellFormed |-> TRUE, obj |-> obj]

\* (mutant of RedisSet) SET ... NX: an existing key keeps its value.
RedisSetNX(db, key, value) ==
    IF key \in DOMAIN db.strings THEN db
    ELSE [db EXCEPT !.strings =
            [k \in DOMAIN db.strings \cup {key} |->
                IF k = key THEN value ELSE db.strings[k]]]

\* SET key value: creates the key or replaces its value.
RedisSet(db, key, value) ==
    [db EXCEPT !.strings =
        [k \in DOMAIN db.strings \cup {key} |->
            IF k = key THEN value ELSE db.strings[k]]]

\* Whether the server accepts TS.ADD key timestamp 1.
TsAddAccepted(db, key, timestamp, mode) ==
    CASE mode = "absent" -> FALSE
      [] mode = "BLOCK" -> ~(key \in DOMAIN db.series /\ timestamp \in db.series[key])
      [] OTHER -> TRUE

\* TS.ADD key timestamp 1, accepted: one sample at the timestamp.
TsAdd(db, key, timestamp) ==
    [db EXCEPT !.series =
        [k \in DOMAIN db.series \cup {key} |->
            IF k = key
            THEN (IF key \in DOMAIN db.series THEN db.series[key] ELSE {})
                 \cup {timestamp}
            ELSE db.series[k]]]

\* ZADD key score member: a sorted set holds each member once; adding a
\* member it holds replaces the member's score.
ZAdd(db, key, score, member) ==
    LET old == IF key \in DOMAIN db.zsets THEN db.zsets[key] ELSE {}
        new == {e \in old : e.member # member}
               \cup {[member |-> member, score |-> score]}
    IN [db EXCEPT !.zsets =
           [k \in DOMAIN db.zsets \cup {key} |->
               IF k = key THEN new ELSE db.zsets[k]]]

\* The members of a set of sorted-set entries by ascending score.
RECURSIVE ByScore(_)
ByScore(entries) ==
    IF entries = {} THEN <<>>
    ELSE LET first == CHOOSE e \in entries :
                          \A f \in entries : e.score <= f.score
         IN <<first.member>> \o ByScore(entries \ {first})

\* ZRANGEBYSCORE key min max LIMIT 0 count: the members with min <= score <=
\* max by ascending score, the first `count` of them; nothing for a key that
\* does not exist.  An Undefined bound is -inf / +inf.
ZRangeByScore(db, key, min, max, count) ==
    LET all == IF key \in DOMAIN db.zsets THEN db.zsets[key] ELSE {}
        inRange == {e \in all : /\ (min = Undefined \/ e.score >= min)
                                /\ (max = Undefined \/ e.score <= max)}
        sorted == ByScore(inRange)
    IN SubSeq(sorted, 1, Min(count, Len(sorted)))

\* KEYS prefix:* for a prefix that ends with ':' : every key, of any type,
\* that continues the prefix.
RedisKeys(db, prefix) ==
    {k \in DOMAIN db.strings \cup DOMAIN db.zsets \cup DOMAIN db.series :
        /\ Len(k) > Len(prefix)
        /\ SubSeq(k, 1, Len(prefix)) = prefix}

\* ========================================================= record functions
BuyEventData(event, timestamp) ==
    [aInput |-> ToString(event.aInput),
     bOutput |-> ToString(event.bOutput),
     creatorFees |-> ToString(event.creatorFees),
     buybackFees |-> ToString(event.buybackFees),
     platformFees |-> ToString(event.platformFees),
     topupPaid |-> ToString(event.topupPaid),
     newBReserve |-> ToString(event.newBReserve),
     newAReserve |-> ToString(event.newAReserve),
     newOutstandingTopup |-> ToString(event.newOutstandingTopup),
     newCreatorFeesBalance |-> ToString(event.newCreatorFeesBalance),
     newBuybackFeesBalance |-> ToString(event.newBuybackFeesBalance),
     timestamp |-> timestamp,
     poolAddress |-> event.pool,
     userAddress |-> event.buyer,
     eventType |-> "buy"]

SellEventData(event, timestamp) ==
    [bInput |-> ToString(event.bInput),
     aOutput |-> ToString(event.aOutput),
     creatorFees |-> ToString(event.creatorFees),
     buybackFees |-> ToString(event.buybackFees),
     platformFees |-> ToString(event.platformFees),
     topupPaid |-> ToString(event.topupPaid),
     newBReserve |-> ToString(event.newBReserve),
     newAReserve |-> ToString(event.newAReserve),
     newOutstandingTopup |-> ToString(event.newOutstandingTopup),
     newCreatorFeesBalance |-> ToString(event.newCreatorFeesBalance),
     newBuybackFeesBalance |-> ToString(event.newBuybackFeesBalance),
     timestamp |-> timestamp,
     poolAddress |-> event.pool,
     userAddress |-> event.seller,
     eventType |-> "sell"]

BurnEventData(event, timestamp) ==
    [burnAmount |-> ToString(event.burnAmount),
     topupAccrued |-> ToString(event.topupAccrued),
     newBReserve |-> ToString(event.newBReserve),
     newAReserve |-> ToString(event.newAReserve),
     newOutstandingTopup |-> ToString(event.newOutstandingTopup),
     newVirtualReserve |-> ToString(event.newVirtualReserve),
     newBuybackFeesBalance |-> ToString(event.newBuybackFeesBalance),
     timestamp |-> timestamp,
     poolAddress |-> event.pool,
     userAddress |-> event.burner,
     eventType |-> "burn"]

\* (mutant of PayloadKey) the key without the kind.
PayloadKeyNoKind(type, poolAddress, timestamp) ==
    <<"cbmm-demo", "events", poolAddress, ToString(timestamp)>>

\* The key of an event's payload, `cbmm-demo:events:<type>:<pool>:<timestamp>`.
PayloadKey(type, poolAddress, timestamp) ==
    <<"cbmm-demo", "events", type, poolAddress, ToString(timestamp)>>

\* The key of the sorted set of a (type, pool), `cbmm-demo:events:<type>:<pool>`.
IndexKey(type, poolAddress) == <<"cbmm-demo", "events", type, poolAddress>>

\* The key of the time series of a (type, pool).
SeriesKey(type, poolAddress) == <<"cbmm-demo", "ts", "events", type, poolAddress>>

\* The three awaited commands of a record function, in order: SET, TS.ADD,
\* ZADD.  TS.ADD is a module command the server may reject; a rejection raises
\* out of the function after SET and before ZADD.
RecordCommands(db, type, poolAddress, timestamp, eventData, mode) ==
    LET key == PayloadKey(type, poolAddress, timestamp)
        jsonValue == JsonStringify(eventData)
        afterSet == RedisSet(db, key, jsonValue)
        afterTs == TsAdd(afterSet, SeriesKey(type, poolAddress), timestamp)
        afterZadd == ZAdd(afterTs, IndexKey(type, poolAddress), timestamp, key)
    IN IF TsAddAccepted(afterSet, SeriesKey(type, poolAddress), timestamp, mode)
       THEN [db |-> afterZadd, threw |-> FALSE]
       ELSE [db |-> afterSet, threw |-> TRUE]

recordBuyEvent(db, event, timestamp, mode) ==
    RecordCommands(db, "buy", event.pool, timestamp,
                   BuyEventData(event, timestamp), mode)

recordSellEvent(db, event, timestamp, mode) ==
    RecordCommands(db, "sell", event.pool, timestamp,
                   SellEventData(event, timestamp), mode)

recordBurnEvent(db, event, timestamp, mode) ==
    RecordCommands(db, "burn", event.pool, timestamp,
                   BurnEventData(event, timestamp), mode)

\* ================================================================ getEvents
\* The part of a key the pattern /^events:(buy|sell|burn):([^:]+):/ captures
\* as the pool, or "" when the pattern does not match: the key has to START
\* with `events:`, then a kind, then a non-empty part followed by a ':'.
PoolOfKey(key) ==
    IF /\ Len(key) >= 4
       /\ key[1] = "events"
       /\ key[2] \in {"buy", "sell", "burn"}
       /\ key[3] # ""
    THEN key[3] ELSE ""

\* A set as a sequence, in some order (a Set iterates in insertion order, the
\* order KEYS answered in).
RECURSIVE SetToSeq(_)
SetToSeq(S) ==
    IF S = {} THEN <<>>
    ELSE LET x == CHOOSE y \in S : TRUE IN <<x>> \o SetToSeq(S \ {x})

RECURSIVE Flatten(_)
Flatten(seqs) ==
    IF seqs = <<>> THEN <<>> ELSE Head(seqs) \o Flatten(Tail(seqs))

\* events.sort((a, b) => b.timestamp - a.timestamp): stable, descending.
RECURSIVE SortByTimestampDesc(_)
SortByTimestampDesc(events) ==
    IF events = <<>> THEN <<>>
    ELSE LET i == CHOOSE j \in 1..Len(events) :
                      /\ \A k \in 1..Len(events) :
                            events[k].timestamp <= events[j].timestamp
                      /\ \A k \in 1..(j - 1) :
                            events[k].timestamp < events[j].timestamp
         IN <<events[i]>> \o
            SortByTimestampDesc(SubSeq(events, 1, i - 1)
                                \o SubSeq(events, i + 1, Len(events)))

\* events.slice(0, limit) for a limit >= 0.
Slice(events, limit) == SubSeq(events, 1, Min(limit, Len(events)))

\* (mutant of ScanIndex) the user filter of line 72 is left out.
ScanIndexAnyUser(db, query, limit, keyPattern) ==
    LET keys == ZRangeByScore(db, keyPattern, query.startTimestamp,
                              query.endTimestamp, limit)
        Parsed(key) == db.strings[key].obj
        Keep(key) ==
            /\ key \in DOMAIN db.strings
            /\ db.strings[key].wellFormed
            /\ ~(query.poolAddress # ""
                 /\ Parsed(key).poolAddress # query.poolAddress)
            /\ ~(query.startTimestamp \notin {Undefined, 0}
                 /\ Parsed(key).timestamp < query.startTimestamp)
            /\ ~(query.endTimestamp \notin {Undefined, 0}
                 /\ Parsed(key).timestamp > query.endTimestamp)
        kept == SelectSeq(keys, Keep)
    IN [i \in 1..Len(kept) |-> Parsed(kept[i])]

\* (mutant of ScanIndex) no try around JSON.parse and no test of the value
\* GET answers: the first payload that is missing or does not parse ends the
\* scan of the sorted set without an event.
ScanIndexNoCatch(db, query, limit, keyPattern) ==
    LET keys == ZRangeByScore(db, keyPattern, query.startTimestamp,
                              query.endTimestamp, limit)
        Parsed(key) == db.strings[key].obj
        Readable(key) == key \in DOMAIN db.strings /\ db.strings[key].wellFormed
        Keep(key) ==
            /\ ~(query.poolAddress # ""
                 /\ Parsed(key).poolAddress # query.poolAddress)
            /\ ~(query.userAddress # ""
                 /\ Parsed(key).userAddress # query.userAddress)
            /\ ~(query.startTimestamp \notin {Undefined, 0}
                 /\ Parsed(key).timestamp < query.startTimestamp)
            /\ ~(query.endTimestamp \notin {Undefined, 0}
                 /\ Parsed(key).timestamp > query.endTimestamp)
        kept == SelectSeq(keys, Keep)
    IN IF \A i \in 1..Len(keys) : Readable(keys[i])
       THEN [i \in 1..Len(kept) |-> Parsed(kept[i])]
       ELSE <<>>

\* Lines 59-81: the range scan of one sorted set and the reading back of the
\* payloads it names.
ScanIndex(db, query, limit, keyPattern) ==
    LET keys == ZRangeByScore(db, keyPattern, query.startTimestamp,
                              query.endTimestamp, limit)
        Parsed(key) == db.strings[key].obj
        Keep(key) ==
            /\ key \in DOMAIN db.strings
            /\ db.strings[key].wellFormed
            /\ ~(query.poolAddress # ""
                 /\ Parsed(key).poolAddress # query.poolAddress)
            /\ ~(query.userAddress # ""
                 /\ Parsed(key).userAddress # query.userAddress)
            /\ ~(query.startTimestamp \notin {Undefined, 0}
                 /\ Parsed(key).timestamp < query.startTimestamp)
            /\ ~(query.endTimestamp \notin {Undefined, 0}
                 /\ Parsed(key).timestamp > query.endTimestamp)
        kept == SelectSeq(keys, Keep)
    IN [i \in 1..Len(kept) |-> Parsed(kept[i])]

RECURSIVE getEvents(_, _)
getEvents(db, query) ==
    LET limit == IF query.limit = Undefined THEN DefaultLimit ELSE query.limit
        typesToQuery == IF query.eventType # "" THEN <<query.eventType>>
                        ELSE EventTypes
        OfType(type) ==
            IF query.poolAddress # ""
            THEN ScanIndex(db, query, limit, IndexKey(type, query.poolAddress))
            ELSE IF query.userAddress # ""
            THEN ScanIndex(db, query, limit,
                           <<"cbmm-demo", "events", type, "user", query.userAddress>>)
            ELSE LET allKeys == RedisKeys(db, <<"cbmm-demo", "events", type>>)
                     uniquePools == {PoolOfKey(k) : k \in allKeys} \ {""}
                     pools == SetToSeq(uniquePools)
                 IN Flatten([i \in 1..Len(pools) |->
                        getEvents(db, [query EXCEPT !.eventType = type,
                                                    !.poolAddress = pools[i]])])
        events == Flatten([i \in 1..Len(typesToQuery) |-> OfType(typesToQuery[i])])
    IN Slice(SortByTimestampDesc(events), limit)

\* ================================================================ parseLogs
\* The first 8 bytes of SHA256("event:" + eventName).
Discriminator(eventName) ==
    CASE eventName = "BurnEvent" -> <<33, 89, 47, 117, 82, 124, 238, 250>>
      [] eventName = "BuyEvent" -> <<103, 244, 82, 31, 44, 245, 119, 119>>
      [] eventName = "SellEvent" -> <<62, 47, 55, 10, 165, 3, 220, 42>>
      [] OTHER -> <<77, 242, 132, 76, 223, 197, 215, 164>>

BURN_EVENT_DISCRIMINATOR == Discriminator("BurnEvent")
BUY_EVENT_DISCRIMINATOR == Discriminator("BuyEvent")
SELL_EVENT_DISCRIMINATOR == Discriminator("SellEvent")

\* Buffer.slice: the bytes from offset start (0-based) up to offset end,
\* both clipped to the buffer.
BufferSlice(bytes, start, end) ==
    SubSeq(bytes, Min(start, Len(bytes)) + 1, Min(end, Len(bytes)))

\* ---- the byte layouts of the events: little-endian u64 amounts in the
\* order of the fields, then the two 32-byte addresses.
BuyFields ==
    <<"aInput", "bOutput", "creatorFees", "buybackFees", "platformFees",
      "topupPaid", "newBReserve", "newAReserve", "newOutstandingTopup",
      "newCreatorFeesBalance", "newBuybackFeesBalance">>

SellFields ==
    <<"bInput", "aOutput", "creatorFees", "buybackFees", "platformFees",
      "topupPaid", "newBReserve", "newAReserve", "newOutstandingTopup",
      "newCreatorFeesBalance", "newBuybackFeesBalance">>

BurnFields ==
    <<"burnAmount", "topupAccrued", "newBReserve", "newAReserve",
      "newOutstandingTopup", "newVirtualReserve", "newBuybackFeesBalance">>

\* The 32 bytes of an address: the sample addresses differ in the first byte.
AddressBytes(address) ==
    LET first == CASE address = "P1" -> 201 [] address = "P2" -> 202
                   [] address = "U1" -> 101 [] address = "U2" -> 102
                   [] OTHER -> 0
    IN [i \in 1..32 |-> IF i = 1 THEN first ELSE 0]

\* The address 32 bytes spell.
AddressOf(bytes) ==
    IF \E a \in Pools \cup Users : AddressBytes(a) = bytes
    THEN CHOOSE a \in Pools \cup Users : AddressBytes(a) = bytes
    ELSE "unknown"

\* The 8 bytes of a u64, least significant first.
RECURSIVE U64LE(_, _)
U64LE(value, width) ==
    IF width = 0 THEN <<>>
    ELSE <<value % 256>> \o U64LE(value \div 256, width - 1)

\* The u64 that 8 bytes spell, least significant first.
RECURSIVE ReadU64LE(_)
ReadU64LE(bytes) ==
    IF bytes = <<>> THEN 0 ELSE Head(bytes) + 256 * ReadU64LE(Tail(bytes))

\* The bytes the program emits for an event: its amounts, pool and user.
RECURSIVE EncodeAmounts(_, _)
EncodeAmounts(event, fields) ==
    IF fields = <<>> THEN <<>>
    ELSE U64LE(event[Head(fields)], 8) \o EncodeAmounts(event, Tail(fields))

EncodeEvent(event, fields, userField) ==
    EncodeAmounts(event, fields) \o AddressBytes(event.pool)
        \o AddressBytes(event[userField])

\* A struct decoder: the record of the amounts, the pool and the user read
\* from the front of the bytes, or nothing (the decoder throws) when the bytes
\* are fewer than the layout; bytes beyond the layout are ignored.
DecodeStruct(bytes, fields, userField) ==
    LET size == 8 * Len(fields) + 64
        names == {fields[i] : i \in 1..Len(fields)} \cup {"pool", userField}
        At(name) == CHOOSE i \in 1..Len(fields) : fields[i] = name
    IN IF Len(bytes) < size THEN <<>>
       ELSE <<[name \in names |->
                 CASE name = "pool" ->
                        AddressOf(SubSeq(bytes, size - 63, size - 32))
                   [] name = userField ->
                        AddressOf(SubSeq(bytes, size - 31, size))
                   [] OTHER ->
                        ReadU64LE(SubSeq(bytes, 8 * At(name) - 7, 8 * At(name)))]>>

\* The generated decoders of the client package.
DecodeBurnEvent(bytes) == DecodeStruct(bytes, BurnFields, "burner")

DecodeBuyEvent(bytes) == DecodeStruct(bytes, BuyFields, "buyer")

DecodeSellEvent(bytes) == DecodeStruct(bytes, SellFields, "seller")

\* ---- log lines.  A line (an element of meta.logMessages): whether it is a
\* string at all, whether it starts with 'Program data: ', and the text after
\* the prefix as base64: whether all of it is base64, and the bytes
\* Buffer.from(text, 'base64') makes of it.
DataLine(valid, bytes) ==
    [isString |-> TRUE, prefix |-> TRUE, base64 |-> [valid |-> valid, bytes |-> bytes]]

NoiseLine ==
    [isString |-> TRUE, prefix |-> FALSE, base64 |-> [valid |-> FALSE, bytes |-> <<>>]]

\* An element of the log array that is not a string (a number, null).
BadLine == [NoiseLine EXCEPT !.isString = FALSE]

\* The line the program logs for an event of a kind with sample amounts.
EventLine(eventName, pool, user) ==
    DataLine(TRUE,
        Discriminator(eventName) \o
        CASE eventName = "BurnEvent" ->
                 EncodeEvent(BurnEvent(pool, user), BurnFields, "burner")
          [] eventName = "BuyEvent" ->
                 EncodeEvent(BuyEvent(pool, user), BuyFields, "buyer")
          [] OTHER ->
                 EncodeEvent(SellEvent(pool, user), SellFields, "seller"))

\* Buffer.from(base64Data, 'base64'): lenient, it never throws.
FromBase64(base64) == base64.bytes

\* (mutant of DecodeLine) the decoders of Buy and Sell are exchanged.
DecodeLineSwapped(log) ==
    LET eventData == FromBase64(log.base64)
        discriminator == BufferSlice(eventData, 0, 8)
        body == BufferSlice(eventData, 8, Len(eventData))
    IN [threw |-> FALSE,
        event |-> CASE discriminator = BURN_EVENT_DISCRIMINATOR -> DecodeBurnEvent(body)
                    [] discriminator = BUY_EVENT_DISCRIMINATOR -> DecodeSellEvent(body)
                    [] discriminator = SELL_EVENT_DISCRIMINATOR -> DecodeBuyEvent(body)
                    [] OTHER -> <<>>]

\* (mutant of DecodeLine) the last kind is the default, and no try.
DecodeLineDefaultKind(log) ==
    LET eventData == FromBase64(log.base64)
        discriminator == BufferSlice(eventData, 0, 8)
        body == BufferSlice(eventData, 8, Len(eventData))
        decoded == CASE discriminator = BURN_EVENT_DISCRIMINATOR -> DecodeBurnEvent(body)
                     [] discriminator = BUY_EVENT_DISCRIMINATOR -> DecodeBuyEvent(body)
                     [] OTHER -> DecodeSellEvent(body)
    IN [threw |-> decoded = <<>>, event |-> decoded]

\* (mutant of DecodeLine) a decoder's exception is not caught.
DecodeLineNoCatch(log) ==
    LET eventData == FromBase64(log.base64)
        discriminator == BufferSlice(eventData, 0, 8)
        body == BufferSlice(eventData, 8, Len(eventData))
        known == discriminator \in {BURN_EVENT_DISCRIMINATOR, BUY_EVENT_DISCRIMINATOR,
                                    SELL_EVENT_DISCRIMINATOR}
        decoded == CASE discriminator = BURN_EVENT_DISCRIMINATOR -> DecodeBurnEvent(body)
                     [] discriminator = BUY_EVENT_DISCRIMINATOR -> DecodeBuyEvent(body)
                     [] discriminator = SELL_EVENT_DISCRIMINATOR -> DecodeSellEvent(body)
                     [] OTHER -> <<>>
    IN [threw |-> known /\ decoded = <<>>, event |-> decoded]

\* Lines 27-57, the body of the loop for a line with the prefix: the event the
\* line holds, or nothing; threw when an exception leaves the try (never: the
\* catch of line 54 turns a decoder's exception into the next line).
DecodeLine(log) ==
    LET eventData == FromBase64(log.base64)
        discriminator == BufferSlice(eventData, 0, 8)
        body == BufferSlice(eventData, 8, Len(eventData))
    IN [threw |-> FALSE,
        event |-> CASE discriminator = BURN_EVENT_DISCRIMINATOR -> DecodeBurnEvent(body)
                    [] discriminator = BUY_EVENT_DISCRIMINATOR -> DecodeBuyEvent(body)
                    [] discriminator = SELL_EVENT_DISCRIMINATOR -> DecodeSellEvent(body)
                    [] OTHER -> <<>>]

\* (mutant of parseLogs) the scan goes on after a match: the last event wins.
RECURSIVE parseLogsLast(_)
parseLogsLast(logs) ==
    IF logs = <<>> THEN [threw |-> FALSE, event |-> <<>>]
    ELSE LET log == logs[Len(logs)]
             line == DecodeLine(log)
             before == parseLogsLast(SubSeq(logs, 1, Len(logs) - 1))
         IN IF before.threw \/ ~log.isString THEN [threw |-> TRUE, event |-> <<>>]
            ELSE IF log.prefix /\ line.event # <<>> THEN [threw |-> FALSE, event |-> line.event]
            ELSE before

\* parseLogs: [threw, event], event holding the parsed event or nothing (null).
\* log.startsWith is called outside the try: an element that is no string
\* raises out of parseLogs.
RECURSIVE parseLogs(_)
parseLogs(logs) ==
    IF logs = <<>> THEN [threw |-> FALSE, event |-> <<>>]
    ELSE LET log == Head(logs)
             line == DecodeLine(log)
         IN IF ~log.isString THEN [threw |-> TRUE, event |-> <<>>]
            ELSE IF log.prefix /\ line.threw THEN [threw |-> TRUE, event |-> <<>>]
            ELSE IF log.prefix /\ line.event # <<>>
            THEN [threw |-> FALSE, event |-> line.event]
            ELSE parseLogs(Tail(logs))

\* ===================================================================== POST
CBMM_PROGRAM_ID == "CBMMzs3HKfTMudbXifeNcw3NcHQhZX7izDBKoGDLRdjj"

\* String.prototype.trim on a string given as its characters.
RECURSIVE TrimStart(_)
TrimStart(str) ==
    IF str # <<>> /\ Head(str) = " " THEN TrimStart(Tail(str)) ELSE str

RECURSIVE TrimEnd(_)
TrimEnd(str) ==
    IF str # <<>> /\ str[Len(str)] = " "
    THEN TrimEnd(SubSeq(str, 1, Len(str) - 1)) ELSE str

Trim(str) == TrimEnd(TrimStart(str))

\* A transaction record of the payload.  isNull: the array element is null.
\* keys: transaction.message.accountKeys is "absent" (a link of the ?. chain
\* is undefined), "nonarray" (a value without .some) or an "array".
\* blockTime: 0 stands for null, 0 and a missing field, all falsy.
\* logs: meta.logMessages is "absent" (null, missing, no array) or an "array".
Tx(keys, accountKeys, blockTime, logs, logMessages) ==
    [isNull |-> FALSE, keys |-> keys, accountKeys |-> accountKeys,
     blockTime |-> blockTime, logs |-> logs, logMessages |-> logMessages]

NullTx == [Tx("absent", <<>>, 0, "absent", <<>>) EXCEPT !.isNull = TRUE]

\* (mutant of InvolvesCBMM) any account list counts.
InvolvesAnyProgram(tx) == tx.keys = "array" /\ tx.accountKeys # <<>>

\* Lines 59-61: accountKeys?.some(key => key === CBMM_PROGRAM_ID), undefined
\* (falsy) when the chain is cut.
InvolvesCBMM(tx) ==
    /\ tx.keys = "array"
    /\ \E i \in 1..Len(tx.accountKeys) : tx.accountKeys[i] = CBMM_PROGRAM_ID

\* Lines 88-110: the kind of a parsed event, from the fields it has.
EventKind(parsedEvent) ==
    LET has == DOMAIN parsedEvent
    IN IF {"bInput", "aOutput", "seller"} \subseteq has THEN "sell"
       ELSE IF {"aInput", "bOutput", "buyer"} \subseteq has THEN "buy"
       ELSE IF {"burnAmount", "burner"} \subseteq has THEN "burn"
       ELSE "unknown"

Success(eventType) == [success |-> TRUE, eventType |-> eventType, error |-> ""]
Failure(error) == [success |-> FALSE, eventType |-> "", error |-> error]

\* (mutant of HandleTx) the test of blockTime of lines 67-71 is left out.
HandleTxAnyTime(db, tx, mode) ==
    LET Quiet == [db |-> db, pushed |-> <<>>, recorded |-> <<>>, escaped |-> FALSE]
        parsed == parseLogs(tx.logMessages)
        parsedEvent == parsed.event[1]
        kind == EventKind(parsedEvent)
        r == CASE kind = "sell" -> recordSellEvent(db, parsedEvent, tx.blockTime, mode)
               [] kind = "buy" -> recordBuyEvent(db, parsedEvent, tx.blockTime, mode)
               [] OTHER -> recordBurnEvent(db, parsedEvent, tx.blockTime, mode)
    IN IF tx.isNull \/ tx.keys = "nonarray"
       THEN [Quiet EXCEPT !.escaped = TRUE]
       ELSE IF ~InvolvesCBMM(tx) THEN Quiet
       ELSE IF tx.logs # "array" \/ tx.logMessages = <<>> THEN Quiet
       ELSE IF parsed.threw
       THEN [Quiet EXCEPT !.pushed = <<Failure("Failed to process event")>>]
       ELSE IF parsed.event = <<>> THEN Quiet
       ELSE IF kind = "unknown"
       THEN [Quiet EXCEPT !.pushed = <<Failure("Unknown event type")>>]
       ELSE [db |-> r.db,
             pushed |-> IF r.threw THEN <<Failure("Failed to process event")>>
                        ELSE <<Success(kind)>>,
             recorded |-> <<kind>>,
             escaped |-> FALSE]

\* (mutant of HandleTx) the success outcome is pushed before the record
\* function is awaited.
HandleTxOptimistic(db, tx, mode) ==
    LET Quiet == [db |-> db, pushed |-> <<>>, recorded |-> <<>>, escaped |-> FALSE]
        parsed == parseLogs(tx.logMessages)
        parsedEvent == parsed.event[1]
        kind == EventKind(parsedEvent)
        r == CASE kind = "sell" -> recordSellEvent(db, parsedEvent, tx.blockTime, mode)
               [] kind = "buy" -> recordBuyEvent(db, parsedEvent, tx.blockTime, mode)
               [] OTHER -> recordBurnEvent(db, parsedEvent, tx.blockTime, mode)
    IN IF tx.isNull \/ tx.keys = "nonarray"
       THEN [Quiet EXCEPT !.escaped = TRUE]
       ELSE IF ~InvolvesCBMM(tx) THEN Quiet
       ELSE IF tx.blockTime = 0
       THEN [Quiet EXCEPT !.pushed = <<Failure("Missing blockTime")>>]
       ELSE IF tx.logs # "array" \/ tx.logMessages = <<>> THEN Quiet
       ELSE IF parsed.threw
       THEN [Quiet EXCEPT !.pushed = <<Failure("Failed to process event")>>]
       ELSE IF parsed.event = <<>> THEN Quiet
       ELSE IF kind = "unknown"
       THEN [Quiet EXCEPT !.pushed = <<Failure("Unknown event type")>>]
       ELSE [db |-> r.db,
             pushed |-> <<Success(kind)>>,
             recorded |-> <<kind>>,
             escaped |-> FALSE]

\* One pass of the loop body (lines 56-115) for the record tx: the database
\* after it, what it pushed to results, the record function it called, and
\* whether an exception left the loop for the catch of line 121.  Reading
\* tx.transaction of null, and calling .some on a value that has none, raise
\* before the try of line 79.
HandleTx(db, tx, mode) ==
    LET Quiet == [db |-> db, pushed |-> <<>>, recorded |-> <<>>, escaped |-> FALSE]
        parsed == parseLogs(tx.logMessages)
        parsedEvent == parsed.event[1]
        kind == EventKind(parsedEvent)
        r == CASE kind = "sell" -> recordSellEvent(db, parsedEvent, tx.blockTime, mode)
               [] kind = "buy" -> recordBuyEvent(db, parsedEvent, tx.blockTime, mode)
               [] OTHER -> recordBurnEvent(db, parsedEvent, tx.blockTime, mode)
    IN IF tx.isNull \/ tx.keys = "nonarray"
       THEN [Quiet EXCEPT !.escaped = TRUE]
       ELSE IF ~InvolvesCBMM(tx) THEN Quiet
       ELSE IF tx.blockTime = 0
       THEN [Quiet EXCEPT !.pushed = <<Failure("Missing blockTime")>>]
       ELSE IF tx.logs # "array" \/ tx.logMessages = <<>> THEN Quiet
       ELSE IF parsed.threw
       THEN [Quiet EXCEPT !.pushed = <<Failure("Failed to process event")>>]
       ELSE IF parsed.event = <<>> THEN Quiet
       ELSE IF kind = "unknown"
       THEN [Quiet EXCEPT !.pushed = <<Failure("Unknown event type")>>]
       ELSE [db |-> r.db,
             pushed |-> IF r.threw THEN <<Failure("Failed to process event")>>
                        ELSE <<Success(kind)>>,
             recorded |-> <<kind>>,
             escaped |-> FALSE]

\* (mutant of Authorized) the comparison without the trim.
AuthorizedExact(authorization, secret) ==
    authorization # <<>> /\ authorization[1] = secret

\* (mutant of Authorized) the header is read and never compared.
AuthorizedUnchecked(authorization, secret) == TRUE

\* Line 49: authHeader?.trim() === WEBHOOK_SECRET.  authorization holds the
\* header's value, or nothing when the request has none (get answers null).
Authorized(authorization, secret) ==
    authorization # <<>> /\ Trim(authorization[1]) = secret

\* ========================================================= curve calculator
\* bigint arithmetic.  The code multiplies and then divides bigints, which
\* have no width, and a bigint quotient is truncated toward zero.  The
\* operators below give the same quotients without forming the product.
Abs(x) == IF x < 0 THEN -x ELSE x

\* x * y = q * d + r with 0 <= r < d, for x, y >= 0 and d > 0.
RECURSIVE MulDivNat(_, _, _)
MulDivNat(x, y, d) ==
    IF x = 0 THEN [q |-> 0, r |-> 0]
    ELSE LET h == MulDivNat(x \div 2, y, d)
             t == 2 * h.r + (x % 2) * y
         IN [q |-> 2 * h.q + t \div d, r |-> t % d]

\* (x * y + c) / d on bigints, for 0 <= c < d.
BigIntMulAddDiv(x, y, c, d) ==
    LET m == MulDivNat(Abs(x), Abs(y), d)
        negative == (x < 0) # (y < 0) /\ x # 0 /\ y # 0
    IN IF ~negative THEN m.q + (m.r + c) \div d
       ELSE IF m.q = 0 /\ m.r <= c THEN 0
       ELSE IF m.r >= c THEN -m.q
       ELSE -(m.q - 1)

\* (x * y) / d on bigints, for d # 0.
BigIntMulDiv(x, y, d) ==
    IF d > 0 THEN BigIntMulAddDiv(x, y, 0, d) ELSE -BigIntMulAddDiv(x, y, 0, -d)

\* A JavaScript number the functions return: the double nearest to
\* units / scale; threw when the call raised an exception instead.
NumberOf(units, scale) == [threw |-> FALSE, units |-> units, scale |-> scale]
Zero == NumberOf(0, 1)
RangeError == [threw |-> TRUE, units |-> 0, scale |-> 1]

\* (mutant of calculateFees) floor division.
calculateFeesFloor(aAmount, creatorFeeBasisPoints, buybackFeeBasisPoints) ==
    [creatorFeesAmount |-> BigIntMulAddDiv(aAmount, creatorFeeBasisPoints, 0, 10000),
     buybackFeesAmount |-> BigIntMulAddDiv(aAmount, buybackFeeBasisPoints, 0, 10000)]

\* Lines 6-17.
calculateFees(aAmount, creatorFeeBasisPoints, buybackFeeBasisPoints) ==
    [creatorFeesAmount |-> BigIntMulAddDiv(aAmount, creatorFeeBasisPoints, 9999, 10000),
     buybackFeesAmount |-> BigIntMulAddDiv(aAmount, buybackFeeBasisPoints, 9999, 10000)]

\* (mutant of OneBToken) 10 * bTokenDecimals.
OneBTokenProduct(bTokenDecimals) == 10 * bTokenDecimals

\* Line 34: BigInt(10 ** bTokenDecimals).
OneBToken(bTokenDecimals) == 10 ^ bTokenDecimals

\* The sums of basis points, among those of the inputs, for which the double
\* (1 - sum / 10000) * 10000 falls just below the integer 10000 - sum.
LossySums == {1809}

\* Line 62: BigInt(Math.floor((1 - totalFeeRate) * 10000)), in doubles.
FeeDivisor(totalBasisPoints) ==
    IF totalBasisPoints \in LossySums THEN 10000 - totalBasisPoints - 1
    ELSE 10000 - totalBasisPoints

\* (mutant of calculateBuyOutput) the swap amount is left out of the
\* denominator.
calculateBuyOutputSpot(aAmount, pool, bTokenDecimals) ==
    LET fees == calculateFees(aAmount, pool.creatorFeeBasisPoints,
                              pool.buybackFeeBasisPoints)
        swapAmount == aAmount - fees.creatorFeesAmount - fees.buybackFeesAmount
        denominator == pool.aReserve + pool.aVirtualReserve
    IN IF aAmount = 0 \/ swapAmount <= 0 THEN Zero
       ELSE IF denominator = 0 THEN RangeError
       ELSE NumberOf(BigIntMulDiv(pool.bReserve, swapAmount, denominator),
                     10 ^ bTokenDecimals)

\* Lines 94-122.
calculateBuyOutput(aAmount, pool, bTokenDecimals) ==
    LET fees == calculateFees(aAmount, pool.creatorFeeBasisPoints,
                              pool.buybackFeeBasisPoints)
        swapAmount == aAmount - fees.creatorFeesAmount - fees.buybackFeesAmount
        denominator == pool.aReserve + pool.aVirtualReserve + swapAmount
    IN IF aAmount = 0 THEN Zero
       ELSE IF swapAmount <= 0 THEN Zero
       ELSE IF denominator = 0 THEN RangeError
       ELSE NumberOf(BigIntMulDiv(pool.bReserve, swapAmount, denominator),
                     10 ^ bTokenDecimals)

\* The frame of a call of calculateVirtualTokenPrice: pc is "refine" (in the
\* loop of lines 65-84, before iteration i), "return" (at line 87) or "done".
\* iterations counts the passes of the loop body, broke whether the last one
\* left by the break of line 75.
Returned(result) ==
    [pc |-> "done", result |-> result, swapAmount |-> 0, aAmount |-> 0, i |-> 0,
     iterations |-> 0, broke |-> FALSE]

\* Lines 34-62: the edge cases, the target swap amount, the first estimate.
PriceSetup(pool, bTokenDecimals) ==
    LET oneBToken == OneBToken(bTokenDecimals)
        denominator == pool.bReserve - oneBToken
        swapAmount == BigIntMulDiv(oneBToken, pool.aReserve + pool.aVirtualReserve,
                                   denominator)
        divisor == FeeDivisor(pool.creatorFeeBasisPoints + pool.buybackFeeBasisPoints)
    IN IF \/ pool.bReserve = 0
          \/ pool.aReserve + pool.aVirtualReserve = 0
          \/ pool.bReserve <= oneBToken
       THEN Returned(Zero)
       ELSE IF denominator <= 0 THEN Returned(Zero)
       ELSE IF divisor = 0 THEN Returned(RangeError)
       ELSE [pc |-> "refine", result |-> Zero, swapAmount |-> swapAmount,
             aAmount |-> BigIntMulDiv(swapAmount, 10000, divisor), i |-> 0,
             iterations |-> 0, broke |-> FALSE]

\* Lines 66-83: one pass of the loop body.
RefineOnce(frame, pool) ==
    LET fees == calculateFees(frame.aAmount, pool.creatorFeeBasisPoints,
                              pool.buybackFeeBasisPoints)
        calculatedSwapAmount ==
            frame.aAmount - fees.creatorFeesAmount - fees.buybackFeesAmount
    IN IF calculatedSwapAmount = frame.swapAmount
       THEN [frame EXCEPT !.pc = "return", !.iterations = @ + 1, !.broke = TRUE]
       ELSE IF calculatedSwapAmount > 0
       THEN [frame EXCEPT
                !.aAmount = BigIntMulDiv(@, frame.swapAmount, calculatedSwapAmount),
                !.i = @ + 1, !.iterations = @ + 1]
       ELSE [frame EXCEPT
                !.aAmount = frame.swapAmount + fees.creatorFeesAmount
                                + fees.buybackFeesAmount,
                !.i = @ + 1, !.iterations = @ + 1]

\* (mutant of RefineBudget) the loop has no budget.
RefineForever == 10 * 100

\* Line 65: the iterations the loop may run.
RefineBudget == 10

\* ==================================================================== state
VARIABLES
    tsMode,     \* the server's answer to TS.ADD, one of TsModes
    redis,      \* the Redis database
    nrec,       \* record calls made so far
    last,       \* the last finished call: its arguments and its outcome
    inflight,   \* the record calls whose commands are issued one at a time
    env,        \* process.env.WEBHOOK_SECRET: no element when it is not set
    request,    \* the delivery POST is handling: its body and Authorization
    pc,         \* where POST is: "idle", "loop" (lines 56-115) or "done"
    idx,        \* the transaction record the loop is at
    results,    \* the outcome list built so far
    response,   \* the response POST returned
    trail,      \* per record the loop has handled: what it pushed and recorded
    redis0,     \* the database as the delivery found it
    logs,       \* the log lines handed to parseLogs
    parsed,     \* what parseLogs answered for them
    bcpmmPool,  \* the pool snapshot handed to the curve functions
    decimals,   \* their bTokenDecimals argument
    quotes,     \* per input amount: the fees and the buy output computed
    calc        \* the call of calculateVirtualTokenPrice: position and locals

storeVars == <<redis, nrec, last, inflight>>
ingestVars == <<env, request, pc, idx, results, response, trail, redis0>>
pureVars == <<logs, parsed, bcpmmPool, decimals, quotes, calc>>
vars == <<tsMode, redis, nrec, last, inflight, env, request, pc, idx, results, response,
          trail, redis0, logs, parsed, bcpmmPool, decimals, quotes, calc>>

Queries ==
    [eventType : {"", "sell"},
     poolAddress : {"", "P1"},
     userAddress : {"", "U1"},
     startTimestamp : {Undefined, 20},
     endTimestamp : {Undefined, 20},
     limit : {Undefined, 2}]

NoRequest == [kind |-> "none", txs |-> <<>>, authorization |-> <<>>]
NoResponse == [status |-> 0]

\* The pure functions have not been called.
NoCalls ==
    /\ logs = <<>>
    /\ parsed = [called |-> FALSE]
    /\ bcpmmPool = [aReserve |-> 0, aVirtualReserve |-> 0, bReserve |-> 0,
                    creatorFeeBasisPoints |-> 0, buybackFeeBasisPoints |-> 0]
    /\ decimals = 6
    /\ quotes = <<>>
    /\ calc = [pc |-> "idle"]

Init ==
    /\ tsMode \in TsModes
    /\ redis = EmptyDb
    /\ nrec = 0
    /\ last = [op |-> "none"]
    /\ inflight = <<>>
    /\ env = <<>>
    /\ request = NoRequest
    /\ pc = "idle"
    /\ idx = 0
    /\ results = <<>>
    /\ response = NoResponse
    /\ trail = <<>>
    /\ redis0 = EmptyDb
    /\ NoCalls

\* The index entries of a sorted set that name a member.
IndexEntries(db, indexKey, member) ==
    IF indexKey \in DOMAIN db.zsets
    THEN {e \in db.zsets[indexKey] : e.member = member}
    ELSE {}

\* A record call has finished with outcome r.  last.prior is what the call
\* found at its payload key (no element when the key did not exist) and
\* last.priorIndexed whether the index named that key.
Recorded(type, event, timestamp, r) ==
    LET key == PayloadKey(type, event.pool, timestamp)
    IN /\ redis' = r.db
       /\ nrec' = nrec + 1
       /\ UNCHANGED <<tsMode, pureVars, inflight, ingestVars>>
       /\ last' = [op |-> "record", eventType |-> type, event |-> event,
                   timestamp |-> timestamp, threw |-> r.threw,
                   prior |-> IF key \in DOMAIN redis.strings
                             THEN <<redis.strings[key]>> ELSE <<>>,
                   priorIndexed |->
                       IndexEntries(redis, IndexKey(type, event.pool), key) # {}]

RecordBuy ==
    /\ nrec < MaxRecords
    /\ \E slot \in Slots, user \in Users :
          LET event == BuyEvent(slot[1], user)
              timestamp == slot[2]
          IN Recorded("buy", event, timestamp,
                      recordBuyEvent(redis, event, timestamp, tsMode))

RecordSell ==
    /\ nrec < MaxRecords
    /\ \E slot \in Slots, user \in Users :
          LET event == SellEvent(slot[1], user)
              timestamp == slot[2]
          IN Recorded("sell", event, timestamp,
                      recordSellEvent(redis, event, timestamp, tsMode))

RecordBurn ==
    /\ nrec < MaxRecords
    /\ \E slot \in Slots, user \in Users :
          LET event == BurnEvent(slot[1], user)
              timestamp == slot[2]
          IN Recorded("burn", event, timestamp,
                      recordBurnEvent(redis, event, timestamp, tsMode))

\* A reader asks every query of Queries of the database as it is:
\* last.events[query] is what getEvents(query) answers.
Query ==
    /\ last' = [op |-> "query",
                events |-> [query \in Queries |-> getEvents(redis, query)]]
    /\ UNCHANGED <<tsMode, pureVars, redis, nrec, inflight, ingestVars>>

Next == RecordBuy \/ RecordSell \/ RecordBurn \/ Query

Spec == Init /\ [][Next]_vars

\* ============================================================ store: claims
\* The events that have been recorded: the payloads a record call stored and
\* indexed before it returned.
RecordedEvents(db) ==
    {db.strings[k].obj : k \in {k \in DOMAIN db.strings :
        \E ik \in DOMAIN db.zsets : IndexEntries(db, ik, k) # {}}}

Range(seq) == {seq[i] : i \in 1..Len(seq)}

TimestampsOf(events) == [i \in 1..Len(events) |-> events[i].timestamp]

\* The timestamps of a set of events, largest first.
RECURSIVE TimestampsDesc(_)
TimestampsDesc(events) ==
    IF events = {} THEN <<>>
    ELSE LET e == CHOOSE x \in events :
                      \A y \in events : y.timestamp <= x.timestamp
         IN <<e.timestamp>> \o TimestampsDesc(events \ {e})

LimitOf(query) == IF query.limit = Undefined THEN DefaultLimit ELSE query.limit

NoRange(query) ==
    query.startTimestamp = Undefined /\ query.endTimestamp = Undefined

\* The recorded events of the kinds a query asks for.
RecordedOfKinds(db, query) ==
    {e \in RecordedEvents(db) :
        query.eventType = "" \/ e.eventType = query.eventType}

\* C1 (as claimed): getEvents({poolAddress: P, limit: L}) answers the L most
\* recent recorded events of P, by timestamp descending: the timestamps of the
\* answer are the L largest timestamps of P's recorded events, largest first.
C1_MostRecentOfPool ==
    last.op = "query" =>
        \A query \in Queries :
            (/\ query.poolAddress # ""
             /\ query.eventType = ""
             /\ query.userAddress = ""
             /\ NoRange(query))
            => /\ TimestampsOf(last.events[query]) =
                      Slice(TimestampsDesc({e \in RecordedEvents(redis) :
                                e.poolAddress = query.poolAddress}),
                            LimitOf(query))
               /\ \A e \in Range(last.events[query]) :
                      e.poolAddress = query.poolAddress

C3_AllPoolsEnumerated ==
    last.op = "query" =>
        \A query \in Queries :
            (/\ query.poolAddress = ""
             /\ query.userAddress = ""
             /\ NoRange(query)
             /\ Cardinality(RecordedOfKinds(redis, query)) < LimitOf(query))
            => RecordedOfKinds(redis, query) \subseteq Range(last.events[query])

\* C4 (as claimed): a query with a user and no pool returns every recorded
\* event of that user (of the kinds it asks for, up to the limit), whatever
\* its pool, and no event of another user.
C4_UserPostFilter ==
    last.op = "query" =>
        \A query \in Queries :
            (/\ query.poolAddress = ""
             /\ query.userAddress # ""
             /\ NoRange(query))
            => LET mine == {e \in RecordedOfKinds(redis, query) :
                               e.userAddress = query.userAddress}
               IN /\ Cardinality(mine) < LimitOf(query)
                         => mine \subseteq Range(last.events[query])
                  /\ \A e \in Range(last.events[query]) :
                         e.userAddress = query.userAddress

\* ================================================================ ingestion
\* The values of WEBHOOK_SECRET: not set, empty, "k", and "k " with a space.
Secrets == {<<>>, <<<<>>>>, <<<<"k">>>>, <<<<"k", " ">>>>}

\* The Authorization header: none, or one of these values.
Headers == {<<>>, <<<<"k">>>>, <<<<" ", "k">>>>, <<<<"k", " ">>>>, <<<<"x">>>>}

Other == "TokenkegQfeZyiNwAJbNbGKPFXCWuBvf9Ss623VQ5DA"

\* The transaction records a delivery is made of.
TxShapes ==
    {NullTx,
     Tx("nonarray", <<>>, 10, "array", <<EventLine("BuyEvent", "P1", "U1")>>),
     Tx("absent", <<>>, 10, "array", <<EventLine("BuyEvent", "P1", "U1")>>),
     Tx("array", <<Other>>, 10, "array", <<EventLine("BuyEvent", "P1", "U1")>>),
     Tx("array", <<Other, CBMM_PROGRAM_ID>>, 0, "array",
        <<EventLine("BuyEvent", "P1", "U1")>>),
     Tx("array", <<CBMM_PROGRAM_ID>>, 10, "absent", <<>>),
     Tx("array", <<CBMM_PROGRAM_ID>>, 10, "array", <<NoiseLine>>),
     Tx("array", <<CBMM_PROGRAM_ID>>, 10, "array", <<NoiseLine, BadLine>>),
     Tx("array", <<Other, CBMM_PROGRAM_ID>>, 10, "array",
        <<NoiseLine, EventLine("BuyEvent", "P1", "U1")>>),
     Tx("array", <<CBMM_PROGRAM_ID>>, 10, "array",
        <<EventLine("BuyEvent", "P1", "U2")>>),
     Tx("array", <<CBMM_PROGRAM_ID>>, 10, "array",
        <<EventLine("SellEvent", "P1", "U1"), EventLine("BuyEvent", "P1", "U1")>>),
     Tx("array", <<CBMM_PROGRAM_ID>>, 20, "array",
        <<EventLine("BurnEvent", "P2", "U2")>>)}

Batches == UNION {[1..n -> TxShapes] : n \in 0..MaxBatch}

\* A delivery: a body that is no JSON ("invalid"), JSON that is no array
\* ("object") or an array of transaction records; and its Authorization.
Requests ==
    {[kind |-> k, txs |-> <<>>, authorization |-> a] :
        k \in {"invalid", "object"}, a \in Headers}
    \cup {[kind |-> "array", txs |-> t, authorization |-> a] :
            t \in Batches, a \in Headers}

InitIngest ==
    /\ tsMode \in TsModes
    /\ redis = EmptyDb
    /\ nrec = 0
    /\ last = [op |-> "none"]
    /\ inflight = <<>>
    /\ env \in Secrets
    /\ request = NoRequest
    /\ pc = "idle"
    /\ idx = 0
    /\ results = <<>>
    /\ response = NoResponse
    /\ trail = <<>>
    /\ redis0 = EmptyDb
    /\ NoCalls

Rejected(status, error) ==
    /\ response' = [status |-> status, error |-> error]
    /\ pc' = "done"
    /\ UNCHANGED <<idx, results>>

\* Lines 34-54: the body is parsed, its format and the Authorization checked.
Receive ==
    /\ pc = "idle"
    /\ \E req \in Requests :
        /\ request' = req
        /\ redis0' = redis
        /\ IF req.kind = "invalid"
           THEN Rejected(500, "Failed to process webhook")
           ELSE IF req.kind # "array"
           THEN Rejected(400, "Invalid payload format")
           ELSE IF env = <<>> \/ env[1] = <<>>
           THEN Rejected(400, "WEBHOOK_SECRET is not set")
           ELSE IF ~Authorized(req.authorization, env[1])
           THEN Rejected(401, "Invalid authorization header")
           ELSE /\ pc' = "loop"
                /\ idx' = 1
                /\ results' = <<>>
                /\ UNCHANGED response
    /\ UNCHANGED <<tsMode, pureVars, storeVars, env, trail>>

\* Lines 56-115, one transaction record; an exception that leaves the loop is
\* answered by the catch of lines 121-127.
ProcessTx ==
    /\ pc = "loop"
    /\ idx <= Len(request.txs)
    /\ LET h == HandleTx(redis, request.txs[idx], tsMode)
       IN /\ redis' = h.db
          /\ trail' = Append(trail, [pushed |-> h.pushed, recorded |-> h.recorded,
                                     escaped |-> h.escaped])
          /\ IF h.escaped
             THEN /\ response' = [status |-> 500, error |-> "Failed to process webhook"]
                  /\ pc' = "done"
                  /\ UNCHANGED <<idx, results>>
             ELSE /\ results' = results \o h.pushed
                  /\ idx' = idx + 1
                  /\ UNCHANGED <<pc, response>>
    /\ UNCHANGED <<tsMode, pureVars, nrec, last, inflight, env, request, redis0>>

\* Lines 117-120: the summary.
Respond ==
    /\ pc = "loop"
    /\ idx > Len(request.txs)
    /\ response' = [status |-> 200, processed |-> Len(results), results |-> results]
    /\ pc' = "done"
    /\ UNCHANGED <<tsMode, pureVars, storeVars, env, request, idx, results, trail, redis0>>

NextIngest == Receive \/ ProcessTx \/ Respond

SpecIngest == InitIngest /\ [][NextIngest]_vars

\* =========================================================== ingest: claims
\* The delivery has been answered.
Answered == pc = "done"

SecretSet == env # <<>> /\ env[1] # <<>>

\* The Authorization value is the secret once its surrounding whitespace is
\* removed.
TokenMatchesTrimmed ==
    request.authorization # <<>> /\ Trim(request.authorization[1]) = env[1]

\* The Authorization value is the secret, character for character.
TokenMatchesExactly ==
    request.authorization # <<>> /\ request.authorization[1] = env[1]

\* The answer is one of the two rejections that precede the loop.
TurnedAway == response.status \in {400, 401}

NothingWritten == redis = redis0 /\ trail = <<>>

\* The account list of the record is missing or an array without the program.
LacksProgram(tx) ==
    /\ ~tx.isNull
    /\ tx.keys \in {"absent", "array"}
    /\ \A i \in 1..Len(tx.accountKeys) : tx.accountKeys[i] # CBMM_PROGRAM_ID

\* C5 (as claimed): a delivery whose token does not match the secret, or whose
\* secret is not configured, is answered 401 and writes nothing.
C5_Rejected401 ==
    (Answered /\ request.kind = "array" /\ (~SecretSet \/ ~TokenMatchesExactly))
        => (response.status = 401 /\ NothingWritten)

\* C5 (amended): an array delivery is answered 400 when the secret is not set
\* or empty, and 401 when the secret is set and the Authorization header is
\* missing or differs from it after trimming; either way nothing is written.
C5_FailClosed ==
    (Answered /\ request.kind = "array") =>
        /\ ~SecretSet => (response.status = 400 /\ NothingWritten)
        /\ (SecretSet /\ ~TokenMatchesTrimmed)
               => (response.status = 401 /\ NothingWritten)

\* C5 witness: a delivery of a recordable transaction with a wrong token has
\* been answered 401.
C5_Witness ==
    /\ Answered
    /\ request.kind = "array"
    /\ \E i \in 1..Len(request.txs) : InvolvesCBMM(request.txs[i])
    /\ SecretSet
    /\ request.authorization = <<<<"x">>>>
    /\ response.status = 401

\* C6 (as claimed): with the secret configured, an array delivery is let in
\* only if its Authorization value equals the secret character for character.
C6_ExactMatch ==
    (Answered /\ request.kind = "array" /\ SecretSet /\ ~TurnedAway)
        => TokenMatchesExactly

\* C6 (amended): with the secret configured, an array delivery is let in
\* exactly if its Authorization value, with leading and trailing whitespace
\* removed, equals the secret; it is answered 401 otherwise.
C6_TrimmedMatch ==
    (Answered /\ request.kind = "array" /\ SecretSet) =>
        /\ ~TurnedAway <=> TokenMatchesTrimmed
        /\ TurnedAway => response.status = 401

\* C6 witness: a delivery whose Authorization value is the secret followed by
\* a space has been let in and answered 200.
C6_Witness ==
    /\ Answered
    /\ env = <<<<"k">>>>
    /\ request.authorization = <<<<"k", " ">>>>
    /\ request.txs # <<>>
    /\ response.status = 200

\* C7 (as claimed): in an authenticated delivery, a transaction whose accounts
\* lack the program writes nothing and yields one outcome that is no failure.
C7_SkippedOutcome ==
    \A i \in 1..Len(trail) :
        LacksProgram(request.txs[i]) =>
            /\ trail[i].recorded = <<>>
            /\ Len(trail[i].pushed) = 1
            /\ trail[i].pushed[1].error = ""

\* C7 (amended): in an authenticated delivery, a transaction whose account
\* list is missing or is an array without the program id writes nothing and
\* adds no entry at all to the outcome list, neither skipped nor failed.
C7_SilentlySkipped ==
    [][\A tx \in TxShapes :
          (pc = "loop" /\ idx <= Len(request.txs) /\ request.txs[idx] = tx
           /\ LacksProgram(tx))
              => (redis' = redis /\ results' = results /\ pc' = "loop"
                  /\ idx' = idx + 1)]_vars

\* C7 witness: a delivery of one transaction of another program, with a buy
\* event in its logs, has been answered 200 with no outcome.
C7_Witness ==
    /\ Answered
    /\ Len(request.txs) = 1
    /\ request.txs[1].accountKeys = <<Other>>
    /\ request.txs[1].logMessages # <<>>
    /\ Len(trail) = 1
    /\ response.status = 200
    /\ response.processed = 0

\* An exception is raised while the record is processed: by reading a field
\* of null, by calling some on a value that has none, by parseLogs, or by a
\* store command.
Raises(tx, entry) ==
    \/ tx.isNull
    \/ tx.keys = "nonarray"
    \/ entry.escaped
    \/ \E j \in 1..Len(entry.pushed) : entry.pushed[j].error = "Failed to process event"

\* C8 (as claimed): in an authenticated array delivery every transaction is
\* processed, and one that raises is recorded as a failure with a message.
C8_FailureIsolated ==
    (Answered /\ request.kind = "array" /\ ~TurnedAway) =>
        /\ Len(trail) = Len(request.txs)
        /\ \A i \in 1..Len(trail) :
              Raises(request.txs[i], trail[i]) =>
                  /\ ~trail[i].escaped
                  /\ Len(trail[i].pushed) = 1
                  /\ ~trail[i].pushed[1].success
                  /\ trail[i].pushed[1].error # ""

\* C9 (as claimed): an authenticated array delivery is answered 200 with
\* processed equal to the number of outcomes; JSON that is no array, 400.
C9_StatusOfDelivery ==
    Answered =>
        /\ (request.kind = "array" /\ SecretSet /\ TokenMatchesTrimmed)
               => (response.status = 200
                   /\ response.processed = Len(response.results))
        /\ request.kind = "object" => response.status = 400

\* C10 (as claimed): a delivery answered with anything but the 200 summary
\* leaves the store as it was before the request.
C10_NoPartialEffect ==
    (Answered /\ response.status # 200) => redis = redis0

\* ============================================================ parseLogs runs
\* Log lines in one call of parseLogs in SpecParse.
MaxLines == 3

\* The lines a log is made of: text without the prefix; the prefix with text
\* that is no base64, with nothing, with 3 bytes, with 8 bytes of an unknown
\* discriminator and a full body, with a known discriminator and no body or
\* half a body; the three complete events; an element that is no string.
LineShapes ==
    {NoiseLine,
     DataLine(FALSE, <<>>),
     DataLine(TRUE, <<103, 244, 82>>),
     DataLine(TRUE, Discriminator("OtherEvent")
                      \o EncodeEvent(SellEvent("P1", "U1"), SellFields, "seller")),
     DataLine(TRUE, SELL_EVENT_DISCRIMINATOR),
     DataLine(TRUE, BufferSlice(EventLine("BuyEvent", "P1", "U1").base64.bytes, 0, 80)),
     EventLine("BuyEvent", "P1", "U1"),
     EventLine("SellEvent", "P1", "U2"),
     EventLine("BurnEvent", "P2", "U1"),
     BadLine}

LogInputs == UNION {[1..n -> LineShapes] : n \in 0..MaxLines}

InitParse ==
    /\ tsMode = "absent"
    /\ redis = EmptyDb
    /\ nrec = 0
    /\ last = [op |-> "none"]
    /\ inflight = <<>>
    /\ env = <<>>
    /\ request = NoRequest
    /\ pc = "idle"
    /\ idx = 0
    /\ results = <<>>
    /\ response = NoResponse
    /\ trail = <<>>
    /\ redis0 = EmptyDb
    /\ logs \in LogInputs
    /\ parsed = [called |-> FALSE]
    /\ bcpmmPool = [aReserve |-> 0, aVirtualReserve |-> 0, bReserve |-> 0,
                    creatorFeeBasisPoints |-> 0, buybackFeeBasisPoints |-> 0]
    /\ decimals = 6
    /\ quotes = <<>>
    /\ calc = [pc |-> "idle"]

\* One call of parseLogs.
Parse ==
    /\ ~parsed.called
    /\ LET r == parseLogs(logs)
       IN parsed' = [called |-> TRUE, threw |-> r.threw, event |-> r.event]
    /\ UNCHANGED <<tsMode, storeVars, ingestVars, logs, bcpmmPool, decimals, quotes, calc>>

NextParse == Parse

SpecParse == InitParse /\ [][NextParse]_vars

\* ======================================================== parseLogs: claims
KnownDiscriminators ==
    {BURN_EVENT_DISCRIMINATOR, BUY_EVENT_DISCRIMINATOR, SELL_EVENT_DISCRIMINATOR}

\* The line is text with the marker prefix.
IsData(log) == log.isString /\ log.prefix

\* The first 8 bytes of the payload of a data line are a known discriminator.
StartsKnown(log) ==
    /\ Len(log.base64.bytes) >= 8
    /\ SubSeq(log.base64.bytes, 1, 8) \in KnownDiscriminators

\* The event a data line carries: the bytes after a known discriminator as
\* the layout of its kind reads them; nothing when they are too few.
Carried(log) ==
    LET bytes == log.base64.bytes
        rest == SubSeq(bytes, 9, Len(bytes))
    IN IF ~StartsKnown(log) THEN <<>>
       ELSE IF SubSeq(bytes, 1, 8) = BURN_EVENT_DISCRIMINATOR THEN DecodeBurnEvent(rest)
       ELSE IF SubSeq(bytes, 1, 8) = BUY_EVENT_DISCRIMINATOR THEN DecodeBuyEvent(rest)
       ELSE DecodeSellEvent(rest)

Valid(log) == IsData(log) /\ Carried(log) # <<>>

AllText(lines) == \A i \in 1..Len(lines) : lines[i].isString

\* The position of the first line that carries a valid event, 0 if none.
FirstValid(lines) ==
    IF \E i \in 1..Len(lines) : Valid(lines[i])
    THEN CHOOSE i \in 1..Len(lines) :
             Valid(lines[i]) /\ \A j \in 1..(i - 1) : ~Valid(lines[j])
    ELSE 0

\* C11: parseLogs returns the event of the first line of text that has the
\* prefix, a known discriminator and a body that decodes; whatever follows
\* that line (a valid event of another kind, an element that is no string)
\* does not change the result.
C11_FirstMatchWins ==
    (/\ parsed.called
     /\ FirstValid(logs) > 0
     /\ AllText(SubSeq(logs, 1, FirstValid(logs))))
        => (~parsed.threw /\ parsed.event = Carried(logs[FirstValid(logs)]))

\* C11 witness: a log with two valid events of different kinds was parsed and
\* the answer is the earlier one.
C11_Witness ==
    /\ parsed.called
    /\ \E i, j \in 1..Len(logs) :
          /\ i < j
          /\ i = FirstValid(logs)
          /\ Valid(logs[j])
          /\ Carried(logs[j]) # Carried(logs[i])
          /\ parsed.event = Carried(logs[i])

\* C12: for lines of text none of which has the prefix followed by a payload
\* that starts with a known discriminator, parseLogs returns null and does not
\* throw.
C12_NoDiscriminatorNoEvent ==
    (/\ parsed.called
     /\ AllText(logs)
     /\ \A i \in 1..Len(logs) : ~(IsData(logs[i]) /\ StartsKnown(logs[i])))
        => (~parsed.threw /\ parsed.event = <<>>)

\* C12 witness: a log with a line of invalid base64, a payload of 3 bytes and
\* a payload with an unknown discriminator was parsed to null.
C12_Witness ==
    /\ parsed.called
    /\ logs = <<DataLine(FALSE, <<>>), DataLine(TRUE, <<103, 244, 82>>),
                DataLine(TRUE, Discriminator("OtherEvent")
                    \o EncodeEvent(SellEvent("P1", "U1"), SellFields, "seller"))>>
    /\ ~parsed.threw
    /\ parsed.event = <<>>

\* The line has a known discriminator and too few bytes after it.
Truncated(log) == IsData(log) /\ StartsKnown(log) /\ Carried(log) = <<>>

\* C13: with a truncated line among lines of text, parseLogs does not throw;
\* it returns the first complete valid event of the log, also when that comes
\* after the truncated line, and null when there is none.
C13_TruncatedIsNoMatch ==
    (/\ parsed.called
     /\ AllText(logs)
     /\ \E i \in 1..Len(logs) : Truncated(logs[i]))
        => /\ ~parsed.threw
           /\ parsed.event = IF FirstValid(logs) > 0
                             THEN Carried(logs[FirstValid(logs)]) ELSE <<>>

\* C13 witness: a truncated Buy line followed by a complete Burn event was
\* parsed and the answer is the Burn event.
C13_Witness ==
    /\ parsed.called
    /\ Len(logs) >= 2
    /\ Truncated(logs[1])
    /\ logs[2] = EventLine("BurnEvent", "P2", "U1")
    /\ parsed.event = <<BurnEvent("P2", "U1")>>

\* The data lines of a log.
DataLines(lines) == {i \in 1..Len(lines) : IsData(lines[i])}

\* C14: when the only data line of a log of text is the line of a complete
\* event of kind Buy, Sell or Burn, parseLogs returns the event of that kind
\* with every amount, the pool and the user as they were encoded.
C14_RoundTrip ==
    (parsed.called /\ AllText(logs)) =>
        \A i \in 1..Len(logs), p \in Pools, u \in Users :
            DataLines(logs) = {i} =>
                /\ logs[i] = EventLine("BuyEvent", p, u)
                       => parsed.event = <<BuyEvent(p, u)>>
                /\ logs[i] = EventLine("SellEvent", p, u)
                       => parsed.event = <<SellEvent(p, u)>>
                /\ logs[i] = EventLine("BurnEvent", p, u)
                       => parsed.event = <<BurnEvent(p, u)>>

\* C14 witness: a log whose only data line is a Sell event, among other text,
\* was parsed to that event.
C14_Witness ==
    /\ parsed.called
    /\ logs = <<NoiseLine, EventLine("SellEvent", "P1", "U2"), NoiseLine>>
    /\ parsed.event = <<SellEvent("P1", "U2")>>
    /\ parsed.event[1].aOutput = 900

\* ======================================================== curve calculator
\* The input amounts of calculateFees and calculateBuyOutput.
Amounts == {0, 1, 20, 21, 100, 101, 102, 1000, 1000000}

\* The (creator, buyback) basis points of the snapshots: none, the usual
\* rates, a lossy sum, a sum of 10000 and a sum above it.
FeeRates == {<<0, 0>>, <<500, 100>>, <<1500, 309>>, <<5000, 5000>>, <<6000, 6000>>}

\* The pool snapshots.
PoolInputs ==
    {[aReserve |-> a, aVirtualReserve |-> v, bReserve |-> b,
      creatorFeeBasisPoints |-> f[1], buybackFeeBasisPoints |-> f[2]] :
        a \in {0, 1000000}, v \in {0, 2000000},
        b \in {0, 1000000, 2000000, 10000000}, f \in FeeRates}

DecimalInputs == {0, 3, 6}

InitCurve ==
    /\ tsMode = "absent"
    /\ redis = EmptyDb
    /\ nrec = 0
    /\ last = [op |-> "none"]
    /\ inflight = <<>>
    /\ env = <<>>
    /\ request = NoRequest
    /\ pc = "idle"
    /\ idx = 0
    /\ results = <<>>
    /\ response = NoResponse
    /\ trail = <<>>
    /\ redis0 = EmptyDb
    /\ logs = <<>>
    /\ parsed = [called |-> FALSE]
    /\ bcpmmPool \in PoolInputs
    /\ decimals \in DecimalInputs
    /\ quotes = <<>>
    /\ calc = [pc |-> "idle"]

\* calculateFees and calculateBuyOutput are called for every input amount.
Quote ==
    /\ quotes = <<>>
    /\ quotes' = [a \in Amounts |->
                    [fees |-> calculateFees(a, bcpmmPool.creatorFeeBasisPoints,
                                            bcpmmPool.buybackFeeBasisPoints),
                     out |-> calculateBuyOutput(a, bcpmmPool, decimals)]]
    /\ UNCHANGED <<tsMode, storeVars, ingestVars, logs, parsed, bcpmmPool, decimals, calc>>

\* calculateVirtualTokenPrice is called and runs to its loop, or returns.
PriceCall ==
    /\ calc.pc = "idle"
    /\ calc' = PriceSetup(bcpmmPool, decimals)
    /\ UNCHANGED <<tsMode, storeVars, ingestVars, logs, parsed, bcpmmPool, decimals, quotes>>

\* One iteration of the loop of lines 65-84.
Refine ==
    /\ calc.pc = "refine"
    /\ calc.i < RefineBudget
    /\ calc' = RefineOnce(calc, bcpmmPool)
    /\ UNCHANGED <<tsMode, storeVars, ingestVars, logs, parsed, bcpmmPool, decimals, quotes>>

\* Line 87, after the break or the last iteration.
PriceReturn ==
    /\ \/ calc.pc = "return"
       \/ calc.pc = "refine" /\ calc.i >= RefineBudget
    /\ calc' = [calc EXCEPT !.pc = "done", !.result = NumberOf(calc.aAmount, 1000000)]
    /\ UNCHANGED <<tsMode, storeVars, ingestVars, logs, parsed, bcpmmPool, decimals, quotes>>

NextCurve == Quote \/ PriceCall \/ Refine \/ PriceReturn

SpecCurve == InitCurve /\ [][NextCurve]_vars

\* ================================================ curve calculator: claims
\* ceil(amount * bp / 10000) for amount >= 0, by the thousands of the amount:
\* amount = 10000 k + m gives k * bp + ceil(m * bp / 10000).
CeilFee(amount, bp) ==
    (amount \div 10000) * bp + (((amount % 10000) * bp + 9999) \div 10000)

\* fee is the exact ceiling of amount * bp / 10000: fee * 10000 >= amount * bp
\* and (fee - 1) * 10000 < amount * bp, with k * bp * 10000 taken from both
\* sides (amount = 10000 k + m).
IsCeiling(fee, amount, bp) ==
    LET part == fee - (amount \div 10000) * bp
        rest == (amount % 10000) * bp
    IN part * 10000 >= rest /\ (part - 1) * 10000 < rest

\* The net swap amount of an input: the input minus both ceiling fees.
NetOf(amount, pool) ==
    amount - CeilFee(amount, pool.creatorFeeBasisPoints)
           - CeilFee(amount, pool.buybackFeeBasisPoints)

Quoted == quotes # <<>>

\* C15: for every positive amount and both rates of the pool, the fee that
\* calculateFees computes is the exact ceiling of amount * bp / 10000.
C15_FeesAreCeilings ==
    Quoted =>
        \A a \in Amounts \ {0} :
            /\ IsCeiling(quotes[a].fees.creatorFeesAmount, a,
                         bcpmmPool.creatorFeeBasisPoints)
            /\ IsCeiling(quotes[a].fees.buybackFeesAmount, a,
                         bcpmmPool.buybackFeeBasisPoints)

\* C15 witness: fees were computed for amount 101 at 500 and 100 basis
\* points, where both ceilings round up (6 and 2).
C15_Witness ==
    /\ Quoted
    /\ bcpmmPool.creatorFeeBasisPoints = 500
    /\ bcpmmPool.buybackFeeBasisPoints = 100
    /\ quotes[101].fees = [creatorFeesAmount |-> 6, buybackFeesAmount |-> 2]

\* C16 (as claimed): calculateBuyOutput(0, pool) is 0 and the output is
\* non-decreasing in the input amount.
C16_MonotoneInInput ==
    Quoted =>
        /\ quotes[0].out = Zero
        /\ \A a, b \in Amounts :
              a <= b => quotes[a].out.units <= quotes[b].out.units

\* C16 (amended): calculateBuyOutput(0, pool) is 0 and the output is
\* non-decreasing in the net swap amount, the input minus both ceiling fees.
C16_MonotoneInNet ==
    Quoted =>
        /\ quotes[0].out = Zero
        /\ \A a, b \in Amounts :
              NetOf(a, bcpmmPool) <= NetOf(b, bcpmmPool)
                  => quotes[a].out.units <= quotes[b].out.units

\* C16 witness: at 500 and 100 basis points input 101 nets less than input
\* 100 (93 against 94) and the output for 101 is the smaller one.
C16_Witness ==
    /\ Quoted
    /\ NetOf(101, bcpmmPool) < NetOf(100, bcpmmPool)
    /\ quotes[101].out.units < quotes[100].out.units

\* The pool and the input of the example.
ExamplePool ==
    [aReserve |-> 1000000, aVirtualReserve |-> 2000000, bReserve |-> 10000000,
     creatorFeeBasisPoints |-> 500, buybackFeeBasisPoints |-> 100]

\* The product bReserve * net stays within the integers of the checker.
Fits(amount, pool) ==
    NetOf(amount, pool) <= 2000000000 \div (pool.bReserve + 1)

\* q is floor(bReserve * net / (aReserve + aVirtualReserve + net)).
IsFloorOutput(q, net, pool) ==
    LET d == pool.aReserve + pool.aVirtualReserve + net
    IN q * d <= pool.bReserve * net /\ pool.bReserve * net < (q + 1) * d

\* C17 (as claimed): for a positive net amount the number returned is
\* floor(quoteReserve * net / (baseReserve + virtualReserve + net)); for the
\* example pool with 6 decimals and input 1,000,000 it is 2,385,786.
C17_ReturnsFloorUnits ==
    Quoted =>
        /\ \A a \in Amounts :
              (NetOf(a, bcpmmPool) > 0 /\ Fits(a, bcpmmPool)) =>
                  /\ quotes[a].out.scale = 1
                  /\ IsFloorOutput(quotes[a].out.units, NetOf(a, bcpmmPool), bcpmmPool)
        /\ (bcpmmPool = ExamplePool /\ decimals = 6)
               => quotes[1000000].out = NumberOf(2385786, 1)

\* C17 (amended): for a positive net amount the number returned is
\* floor(quoteReserve * net / (baseReserve + virtualReserve + net)) divided by
\* 10^decimals; for the example it is 2,385,786 / 10^6.
C17_ReturnsFloorOverScale ==
    Quoted =>
        /\ \A a \in Amounts :
              (NetOf(a, bcpmmPool) > 0) =>
                  /\ ~quotes[a].out.threw
                  /\ quotes[a].out.scale = 10 ^ decimals
                  /\ Fits(a, bcpmmPool) =>
                         IsFloorOutput(quotes[a].out.units, NetOf(a, bcpmmPool),
                                       bcpmmPool)
        /\ (bcpmmPool = ExamplePool /\ decimals = 6)
               => (NetOf(1000000, bcpmmPool) = 940000
                   /\ quotes[1000000].out = NumberOf(2385786, 1000000))

\* C17 witness: the output of the example was computed.
C17_Witness ==
    /\ Quoted
    /\ bcpmmPool = ExamplePool
    /\ decimals = 6
    /\ quotes[1000000].out.units = 2385786

\* C18: calculateVirtualTokenPrice returns 0 when the quote reserve is at
\* most 10^decimals and when base reserve plus virtual reserve is zero.
C18_DegeneratePriceIsZero ==
    (/\ calc.pc = "done"
     /\ \/ bcpmmPool.bReserve <= 10 ^ decimals
        \/ bcpmmPool.aReserve + bcpmmPool.aVirtualReserve = 0)
        => calc.result = Zero

\* C18 witness: the price of a pool whose quote reserve is exactly one whole
\* token (10^6 with 6 decimals), with reserves on the other side, came out 0.
C18_Witness ==
    /\ calc.pc = "done"
    /\ decimals = 6
    /\ bcpmmPool.bReserve = 1000000
    /\ bcpmmPool.aReserve + bcpmmPool.aVirtualReserve > 0
    /\ calc.result = Zero

\* C19 (as claimed): neither function raises, for any snapshot with
\* non-negative reserves and rates and any non-negative input.
C19_NeverRaises ==
    /\ calc.pc = "done" => ~calc.result.threw
    /\ Quoted => \A a \in Amounts : ~quotes[a].out.threw

\* The net swap amount the loop computes for an estimate.
ImpliedSwapAmount(aAmount, pool) ==
    LET fees == calculateFees(aAmount, pool.creatorFeeBasisPoints,
                              pool.buybackFeeBasisPoints)
    IN aAmount - fees.creatorFeesAmount - fees.buybackFeesAmount

InLoop == calc.pc \in {"refine", "return"}

\* C20: the loop runs at most ten iterations and then the function returns;
\* an iteration is the last one before the tenth exactly when the net swap
\* amount of the estimate equals the target.
C20_BoundedRefinement ==
    /\ [](InLoop => calc.iterations <= 10)
    /\ []((calc.pc = "return" /\ ~calc.broke) => calc.iterations = 10)
    /\ [][(calc.pc = "refine" /\ calc.i < 10 /\ calc' # calc) =>
            /\ calc'.pc \in {"refine", "return"}
            /\ calc'.iterations = calc.iterations + 1
            /\ (calc'.pc = "return" /\ calc'.broke)
                   <=> ImpliedSwapAmount(calc.aAmount, bcpmmPool) = calc.swapAmount]_vars
    /\ [][((calc.pc = "return" \/ (calc.pc = "refine" /\ calc.i >= 10))
                /\ calc' # calc)
              => calc'.pc = "done"]_vars

\* C20 witness: a call whose loop ran all ten iterations without reaching
\* the target has returned.
C20_Witness ==
    /\ calc.pc = "done"
    /\ calc.iterations = 10
    /\ ~calc.broke
    /\ ~calc.result.threw

\* The pool has a price to compute: none of the edge cases of lines 34-49.
NonDegenerate ==
    /\ bcpmmPool.bReserve > 10 ^ decimals
    /\ bcpmmPool.aReserve + bcpmmPool.aVirtualReserve > 0

\* C21 (as claimed): ten iterations suffice: for every non-degenerate pool
\* whose two rates sum to less than 10000 basis points, the gross amount a the
\* function settles on satisfies a - ceil(a * creatorBp / 10000)
\* - ceil(a * buybackBp / 10000) = swapAmount.
C21_TenIterationsSuffice ==
    (/\ calc.pc = "done"
     /\ NonDegenerate
     /\ bcpmmPool.creatorFeeBasisPoints + bcpmmPool.buybackFeeBasisPoints < 10000)
        => NetOf(calc.aAmount, bcpmmPool) = calc.swapAmount

\* C30 (as claimed): for every pool and every input amount the integer
\* output of calculateBuyOutput never exceeds the quote reserve and is
\* strictly below it whenever base reserve plus virtual reserve is positive;
\* the division never meets a denominator that is not positive.
C30_OutputBelowReserve ==
    Quoted =>
        \A a \in Amounts :
            /\ ~quotes[a].out.threw
            /\ quotes[a].out.units <= bcpmmPool.bReserve
            /\ (bcpmmPool.aReserve + bcpmmPool.aVirtualReserve > 0)
                   => quotes[a].out.units < bcpmmPool.bReserve

\* C30 (amended): the integer output never exceeds the quote reserve and is
\* strictly below it whenever base reserve plus virtual reserve is positive
\* and the quote reserve is positive; the division never meets a denominator
\* that is not positive.
C30_OutputBelowPositiveReserve ==
    Quoted =>
        \A a \in Amounts :
            /\ ~quotes[a].out.threw
            /\ quotes[a].out.units <= bcpmmPool.bReserve
            /\ (/\ bcpmmPool.aReserve + bcpmmPool.aVirtualReserve > 0
                /\ bcpmmPool.bReserve > 0)
                   => quotes[a].out.units < bcpmmPool.bReserve

\* C30 witness: with no fees, reserves of 1,000,000 on the base side and
\* 2,000,000 on the quote side, input 1,000,000 reached the division and
\* came out at 1,000,000 units, below the quote reserve.
C30_Witness ==
    /\ Quoted
    /\ bcpmmPool.creatorFeeBasisPoints + bcpmmPool.buybackFeeBasisPoints = 0
    /\ bcpmmPool.aReserve + bcpmmPool.aVirtualReserve = 1000000
    /\ bcpmmPool.bReserve = 2000000
    /\ quotes[1000000].out.units = 1000000

\* ================================================== getEvents: stored damage
\* Queries of a store whose payloads may have been lost or overwritten by
\* something other than the record functions.
MaxStored == 3
MaxDamaged == 1

\* The filters asked: as Queries, with a kind of buy and a limit of 1.
Filters ==
    [eventType : {"", "buy"},
     poolAddress : {"", "P1"},
     userAddress : {"", "U1"},
     startTimestamp : {Undefined, 20},
     endTimestamp : {Undefined, 20},
     limit : {Undefined, 1}]

\* JSON.parse of the text throws.
Unparsable == [wellFormed |-> FALSE, obj |-> <<>>]

\* The payload keys the index names whose value GET does not answer or
\* JSON.parse does not accept.
Damaged(db) ==
    {k \in UNION {{e.member : e \in db.zsets[ik]} : ik \in DOMAIN db.zsets} :
        k \notin DOMAIN db.strings \/ ~db.strings[k].wellFormed}

InitQuery ==
    /\ tsMode = "LAST"
    /\ redis = EmptyDb
    /\ nrec = 0
    /\ last = [op |-> "none"]
    /\ inflight = <<>>
    /\ env = <<>>
    /\ request = NoRequest
    /\ pc = "idle"
    /\ idx = 0
    /\ results = <<>>
    /\ response = NoResponse
    /\ trail = <<>>
    /\ redis0 = EmptyDb
    /\ NoCalls

\* A record function is called and returns.
Store ==
    /\ nrec < MaxStored
    /\ \E type \in {"buy", "sell", "burn"}, slot \in Slots, user \in Users :
          LET r == CASE type = "buy" ->
                          recordBuyEvent(redis, BuyEvent(slot[1], user), slot[2], tsMode)
                     [] type = "sell" ->
                          recordSellEvent(redis, SellEvent(slot[1], user), slot[2], tsMode)
                     [] OTHER ->
                          recordBurnEvent(redis, BurnEvent(slot[1], user), slot[2], tsMode)
          IN redis' = r.db
    /\ nrec' = nrec + 1
    /\ last' = [op |-> "none"]
    /\ UNCHANGED <<tsMode, pureVars, inflight, ingestVars>>

\* A payload key is gone while the index still names it: GET answers null.
Expire ==
    /\ Cardinality(Damaged(redis)) < MaxDamaged
    /\ \E key \in DOMAIN redis.strings :
          redis' = [redis EXCEPT !.strings =
                       [k \in DOMAIN redis.strings \ {key} |-> redis.strings[k]]]
    /\ last' = [op |-> "none"]
    /\ UNCHANGED <<tsMode, pureVars, nrec, inflight, ingestVars>>

\* A payload key holds text that is not JSON: JSON.parse throws.
Garble ==
    /\ Cardinality(Damaged(redis)) < MaxDamaged
    /\ \E key \in DOMAIN redis.strings :
          /\ redis.strings[key].wellFormed
          /\ redis' = [redis EXCEPT !.strings[key] = Unparsable]
    /\ last' = [op |-> "none"]
    /\ UNCHANGED <<tsMode, pureVars, nrec, inflight, ingestVars>>

\* A reader asks every filter of Filters of the database as it is.
Ask ==
    /\ last.op = "none"
    /\ last' = [op |-> "ask",
                events |-> [query \in Filters |-> getEvents(redis, query)]]
    /\ UNCHANGED <<tsMode, pureVars, redis, nrec, inflight, ingestVars>>

NextQuery == Store \/ Expire \/ Garble \/ Ask

SpecQuery == InitQuery /\ [][NextQuery]_vars

\* An event satisfies a filter.
Satisfies(event, query) ==
    /\ query.eventType # "" => event.eventType = query.eventType
    /\ event.eventType \in {"buy", "sell", "burn"}
    /\ query.poolAddress # "" => event.poolAddress = query.poolAddress
    /\ query.userAddress # "" => event.userAddress = query.userAddress
    /\ query.startTimestamp # Undefined => query.startTimestamp <= event.timestamp
    /\ query.endTimestamp # Undefined => event.timestamp <= query.endTimestamp

\* C22: every event getEvents returns satisfies the whole filter (kind, pool,
\* user, start <= timestamp <= end), the result is sorted by timestamp
\* descending and has at most `limit` entries, 100 when no limit is given.
C22_ResultWithinFilter ==
    last.op = "ask" =>
        \A query \in Filters :
            LET events == last.events[query]
            IN /\ \A i \in 1..Len(events) : Satisfies(events[i], query)
               /\ \A i, j \in 1..Len(events) :
                     i < j => events[i].timestamp >= events[j].timestamp
               /\ Len(events) <= (IF query.limit = Undefined THEN 100 ELSE query.limit)

\* C22 witness: two events of pool P1 are stored, one of them by user U2; the
\* filter (buy, P1, U1, 20..20) returned one event and the filter of P1 alone
\* returned both.
C22_Witness ==
    /\ last.op = "ask"
    /\ \E k \in DOMAIN redis.strings :
          /\ redis.strings[k].wellFormed
          /\ redis.strings[k].obj.poolAddress = "P1"
          /\ redis.strings[k].obj.userAddress = "U2"
    /\ Len(last.events[[eventType |-> "buy", poolAddress |-> "P1",
                         userAddress |-> "U1", startTimestamp |-> 20,
                         endTimestamp |-> 20, limit |-> Undefined]]) = 1
    /\ Len(last.events[[eventType |-> "", poolAddress |-> "P1",
                         userAddress |-> "", startTimestamp |-> Undefined,
                         endTimestamp |-> Undefined, limit |-> Undefined]]) = 2

\* The payload keys a query with a pool scans: what ZRANGEBYSCORE answers for
\* the sorted set of each requested kind.
Scanned(db, query) ==
    UNION {Range(ZRangeByScore(db, <<"cbmm-demo", "events", type, query.poolAddress>>,
                               query.startTimestamp, query.endTimestamp,
                               IF query.limit = Undefined THEN 100 ELSE query.limit)) :
           type \in IF query.eventType = "" THEN {"buy", "sell", "burn"}
                    ELSE {query.eventType}}

\* The scanned records that parse and satisfy the filter.
ScannedMatching(db, query) ==
    {db.strings[k].obj :
        k \in {k \in Scanned(db, query) \cap DOMAIN db.strings :
                  db.strings[k].wellFormed /\ Satisfies(db.strings[k].obj, query)}}

\* The query scanned a payload key that is missing or does not parse.
MetDamage(db, query) == Scanned(db, query) \cap Damaged(db) # {}

\* C23 (as claimed): a query that scans a record that cannot be parsed back,
\* or an index entry whose payload is missing, skips it and returns every
\* other matching well-formed record that it scanned.
C23_ReturnsEveryOther ==
    last.op = "ask" =>
        \A query \in Filters :
            (query.poolAddress # "" /\ MetDamage(redis, query)) =>
                /\ Range(last.events[query]) \subseteq ScannedMatching(redis, query)
                /\ ScannedMatching(redis, query) \subseteq Range(last.events[query])

\* C23 (amended): such a query skips the damaged record and returns the other
\* matching well-formed records that it scanned, the `limit` most recent of
\* them when there are more than `limit`.
C23_ReturnsOthersUpToLimit ==
    last.op = "ask" =>
        \A query \in Filters :
            (query.poolAddress # "" /\ MetDamage(redis, query)) =>
                LET events == last.events[query]
                    others == ScannedMatching(redis, query)
                    limit == IF query.limit = Undefined THEN 100 ELSE query.limit
                IN /\ Range(events) \subseteq others
                   /\ Cardinality(Range(events)) = Len(events)
                   /\ Len(events) = Min(limit, Cardinality(others))
                   /\ \A e \in others \ Range(events) :
                         \A i \in 1..Len(events) : e.timestamp <= events[i].timestamp

\* C23 witness: the filter of pool P1 alone scanned a damaged record and
\* returned two well-formed ones.
C23_Witness ==
    /\ last.op = "ask"
    /\ MetDamage(redis, [eventType |-> "", poolAddress |-> "P1", userAddress |-> "",
                         startTimestamp |-> Undefined, endTimestamp |-> Undefined,
                         limit |-> Undefined])
    /\ Len(last.events[[eventType |-> "", poolAddress |-> "P1", userAddress |-> "",
                         startTimestamp |-> Undefined, endTimestamp |-> Undefined,
                         limit |-> Undefined]]) = 2

\* ================================================== ingest: timestamp, dispatch
\* The account list of the record is an array that holds the program id.
TouchesProgram(tx) ==
    /\ ~tx.isNull
    /\ tx.keys = "array"
    /\ \E i \in 1..Len(tx.accountKeys) :
          tx.accountKeys[i] = "CBMMzs3HKfTMudbXifeNcw3NcHQhZX7izDBKoGDLRdjj"

\* The loop is about to process a record.
InLoopBody == pc = "loop" /\ idx <= Len(request.txs)

\* C24 (as claimed): a transaction that touches the program and has no
\* usable timestamp writes nothing and is not reported as a failure.
C24_NoTimestampNoFailure ==
    \A i \in 1..Len(trail) :
        (TouchesProgram(request.txs[i]) /\ request.txs[i].blockTime = 0) =>
            /\ trail[i].recorded = <<>>
            /\ \A j \in 1..Len(trail[i].pushed) : trail[i].pushed[j].success

\* C24 (amended): a transaction that touches the program and has no usable
\* timestamp writes nothing and is reported as one per-transaction failure,
\* `Missing blockTime`; the loop goes on to the next transaction.
C24_NoTimestampIsFailure ==
    [][(/\ InLoopBody
        /\ TouchesProgram(request.txs[idx])
        /\ request.txs[idx].blockTime = 0)
          => /\ redis' = redis
             /\ results' = Append(results, [success |-> FALSE, eventType |-> "",
                                            error |-> "Missing blockTime"])
             /\ pc' = "loop"
             /\ idx' = idx + 1]_vars

\* C24 witness: a delivery of one transaction of the program with a buy event
\* in its logs and no blockTime has been answered 200 with one failure and
\* nothing written.
C24_Witness ==
    /\ Answered
    /\ Len(request.txs) = 1
    /\ TouchesProgram(request.txs[1])
    /\ request.txs[1].blockTime = 0
    /\ request.txs[1].logMessages # <<>>
    /\ response.status = 200
    /\ response.processed = 1
    /\ ~response.results[1].success
    /\ redis = redis0

\* The record function of the kind of a decoded event, called on the
\* database as it is with a timestamp.
Dispatch(event, timestamp) ==
    CASE "seller" \in DOMAIN event ->
             [kind |-> "sell", r |-> recordSellEvent(redis, event, timestamp, tsMode)]
      [] "buyer" \in DOMAIN event ->
             [kind |-> "buy", r |-> recordBuyEvent(redis, event, timestamp, tsMode)]
      [] OTHER ->
             [kind |-> "burn", r |-> recordBurnEvent(redis, event, timestamp, tsMode)]

\* The record has log lines to decode.
HasLogs(tx) == tx.logs = "array" /\ tx.logMessages # <<>>

\* parseLogs answers an event for the log lines of the record.
YieldsEvent(tx) ==
    /\ HasLogs(tx)
    /\ LET answer == parseLogs(tx.logMessages)
       IN ~answer.threw /\ answer.event # <<>>

\* parseLogs answers nothing for the record, or it has no log lines.
YieldsNothing(tx) ==
    \/ ~HasLogs(tx)
    \/ LET answer == parseLogs(tx.logMessages)
       IN ~answer.threw /\ answer.event = <<>>

\* The step that processes tx wrote nothing and added no outcome.
SilentStep ==
    /\ redis' = redis
    /\ results' = results
    /\ trail'[Len(trail')].recorded = <<>>

\* C25 (as claimed): for a transaction of the program with a timestamp, an
\* event of kind K that parseLogs yields is written once, by the record
\* function of K with the transaction's timestamp, and one success outcome
\* tagged K is appended; when parseLogs yields nothing, or there are no log
\* lines, nothing is written and no outcome is added.
C25_DispatchSucceeds ==
    [][(/\ InLoopBody
        /\ TouchesProgram(request.txs[idx])
        /\ request.txs[idx].blockTime # 0) =>
            LET tx == request.txs[idx]
            IN /\ YieldsNothing(tx) => SilentStep
               /\ YieldsEvent(tx) =>
                     LET d == Dispatch(parseLogs(tx.logMessages).event[1], tx.blockTime)
                     IN /\ redis' = d.r.db
                        /\ trail'[Len(trail')].recorded = <<d.kind>>
                        /\ results' = Append(results,
                               [success |-> TRUE, eventType |-> d.kind, error |-> ""])]_vars

\* C25 (amended): the record function of K is called once with the
\* transaction's timestamp; one success outcome tagged K is appended when the
\* call returns and one failure outcome when it raises; when parseLogs
\* yields nothing, or there are no log lines, nothing is written and no
\* outcome is added.
C25_DispatchReported ==
    [][(/\ InLoopBody
        /\ TouchesProgram(request.txs[idx])
        /\ request.txs[idx].blockTime # 0) =>
            LET tx == request.txs[idx]
            IN /\ YieldsNothing(tx) => SilentStep
               /\ YieldsEvent(tx) =>
                     LET d == Dispatch(parseLogs(tx.logMessages).event[1], tx.blockTime)
                     IN /\ redis' = d.r.db
                        /\ trail'[Len(trail')].recorded = <<d.kind>>
                        /\ ~d.r.threw => results' = Append(results,
                               [success |-> TRUE, eventType |-> d.kind, error |-> ""])
                        /\ d.r.threw =>
                               /\ Len(results') = Len(results) + 1
                               /\ ~results'[Len(results')].success]_vars

\* C25 witness: under the BLOCK policy a delivery of two buys of pool P1 at
\* timestamp 10 has been answered: the first was recorded with a success
\* outcome tagged buy, the second was handed to recordBuyEvent, which raised,
\* and got a failure outcome.
C25_Witness ==
    /\ Answered
    /\ tsMode = "BLOCK"
    /\ Len(trail) = 2
    /\ trail[1].recorded = <<"buy">>
    /\ trail[2].recorded = <<"buy">>
    /\ response.status = 200
    /\ response.results = <<[success |-> TRUE, eventType |-> "buy", error |-> ""],
                            [success |-> FALSE, eventType |-> "",
                             error |-> "Failed to process event"]>>
    /\ <<"cbmm-demo", "events", "buy", "P1", "10">> \in DOMAIN redis.strings

\* ============================================ record calls, command by command
\* Concurrent record calls on the one client of getRedisClient: each call
\* awaits its three commands in turn, and the commands of different calls
\* reach the server in any interleaving.
MaxCalls == 2

\* The (pool, timestamp) arguments of the calls.
RaceSlots == {<<"P1", 10>>, <<"P1", 20>>, <<"P2", 10>>}

\* The user of the event of the n-th call.
CallerOf(n) == IF n % 2 = 1 THEN "U1" ELSE "U2"

\* (mutant of RecordSteps) the index is written first and the payload last.
RecordStepsIndexFirst == <<"zadd", "tsadd", "set">>

\* Lines 35, 40 and 43: the commands a record function awaits, in order.
RecordSteps == <<"set", "tsadd", "zadd">>

\* Lines 11-27: the payload of a call.
CallData(call) ==
    CASE call.type = "buy" ->
             BuyEventData(BuyEvent(call.pool, call.user), call.timestamp)
      [] call.type = "sell" ->
             SellEventData(SellEvent(call.pool, call.user), call.timestamp)
      [] OTHER ->
             BurnEventData(BurnEvent(call.pool, call.user), call.timestamp)

\* The command a running call issues next.
NextCommand(call) ==
    IF call.state = "running" THEN RecordSteps[call.at] ELSE "none"

\* The call after one more command was answered.
Advanced(call) ==
    [call EXCEPT !.at = @ + 1,
                 !.state = IF call.at = Len(RecordSteps) THEN "returned" ELSE "running"]

InitRace ==
    /\ tsMode \in TsModes
    /\ redis = EmptyDb
    /\ nrec = 0
    /\ last = [op |-> "none"]
    /\ inflight = <<>>
    /\ env = <<>>
    /\ request = NoRequest
    /\ pc = "idle"
    /\ idx = 0
    /\ results = <<>>
    /\ response = NoResponse
    /\ trail = <<>>
    /\ redis0 = EmptyDb
    /\ NoCalls

\* Lines 4-32: a record function is called and builds its payload and key.
CallRecord ==
    /\ Len(inflight) < MaxCalls
    /\ \E type \in {"buy", "sell", "burn"}, slot \in RaceSlots :
          inflight' = Append(inflight,
              [type |-> type, pool |-> slot[1], user |-> CallerOf(Len(inflight) + 1),
               timestamp |-> slot[2], at |-> 1, state |-> "running"])
    /\ UNCHANGED <<tsMode, pureVars, redis, nrec, last, ingestVars>>

\* Line 35: await redis.set(key, jsonValue).
IssueSet ==
    \E i \in 1..Len(inflight) :
        LET call == inflight[i]
        IN /\ NextCommand(call) = "set"
           /\ redis' = RedisSet(redis,
                                PayloadKey(call.type, call.pool, call.timestamp),
                                JsonStringify(CallData(call)))
           /\ inflight' = [inflight EXCEPT ![i] = Advanced(call)]
           /\ UNCHANGED <<tsMode, pureVars, nrec, last, ingestVars>>

\* Line 40: await redis.call('TS.ADD', ...); a rejection raises out of the call.
IssueTsAdd ==
    \E i \in 1..Len(inflight) :
        LET call == inflight[i]
            tsKey == SeriesKey(call.type, call.pool)
        IN /\ NextCommand(call) = "tsadd"
           /\ IF TsAddAccepted(redis, tsKey, call.timestamp, tsMode)
              THEN /\ redis' = TsAdd(redis, tsKey, call.timestamp)
                   /\ inflight' = [inflight EXCEPT ![i] = Advanced(call)]
              ELSE /\ redis' = redis
                   /\ inflight' = [inflight EXCEPT ![i].state = "raised"]
           /\ UNCHANGED <<tsMode, pureVars, nrec, last, ingestVars>>

\* Line 43: await redis.zadd(indexKey, timestamp, key).
IssueZAdd ==
    \E i \in 1..Len(inflight) :
        LET call == inflight[i]
        IN /\ NextCommand(call) = "zadd"
           /\ redis' = ZAdd(redis, IndexKey(call.type, call.pool), call.timestamp,
                            PayloadKey(call.type, call.pool, call.timestamp))
           /\ inflight' = [inflight EXCEPT ![i] = Advanced(call)]
           /\ UNCHANGED <<tsMode, pureVars, nrec, last, ingestVars>>

NextRace == CallRecord \/ IssueSet \/ IssueTsAdd \/ IssueZAdd

SpecRace == InitRace /\ [][NextRace]_vars

\* ================================================ record calls: claims
\* The payload key, the index key and the time-series key of the coordinates
\* (kind, pool, timestamp) of a call.
KeyOf(call) ==
    <<"cbmm-demo", "events", call.type, call.pool, ToString(call.timestamp)>>

IndexOf(call) == <<"cbmm-demo", "events", call.type, call.pool>>

SeriesOf(call) == <<"cbmm-demo", "ts", "events", call.type, call.pool>>

\* The entries the index of a call's (kind, pool) holds for its payload key.
EntriesFor(db, call) ==
    IF IndexOf(call) \in DOMAIN db.zsets
    THEN {e \in db.zsets[IndexOf(call)] : e.member = KeyOf(call)}
    ELSE {}

Finished(call) == call.state \in {"returned", "raised"}

\* Every call made has finished.
Quiescent == \A i \in 1..Len(inflight) : Finished(inflight[i])

\* The payload stored at the key of a call is the payload of a call of the
\* same coordinates.
StoredFromCall(db, call) ==
    /\ KeyOf(call) \in DOMAIN db.strings
    /\ \E j \in 1..Len(inflight) :
          /\ KeyOf(inflight[j]) = KeyOf(call)
          /\ db.strings[KeyOf(call)] = [wellFormed |-> TRUE, obj |-> CallData(inflight[j])]

\* C26 (as claimed): once concurrent record calls have finished, whatever
\* the interleaving of their commands, two calls of the same (kind, pool,
\* timestamp) leave one payload, that of one of them, and exactly one index
\* entry; two calls of different pools leave both payloads stored and indexed.
C26_RacesResolve ==
    Quiescent =>
        \A i, j \in 1..Len(inflight) :
            LET a == inflight[i]
                b == inflight[j]
            IN /\ (i < j /\ KeyOf(a) = KeyOf(b)) =>
                      /\ StoredFromCall(redis, a)
                      /\ Cardinality(EntriesFor(redis, a)) = 1
               /\ (i < j /\ a.pool # b.pool) =>
                      /\ StoredFromCall(redis, a) /\ EntriesFor(redis, a) # {}
                      /\ StoredFromCall(redis, b) /\ EntriesFor(redis, b) # {}

\* C27: in every state, between the commands of calls in flight too, every
\* member of an index names a payload key that exists, and its score is the
\* timestamp inside that payload.
C27_IndexNamesPayload ==
    \A ik \in DOMAIN redis.zsets :
        \A e \in redis.zsets[ik] :
            /\ e.member \in DOMAIN redis.strings
            /\ redis.strings[e.member].wellFormed
            /\ redis.strings[e.member].obj.timestamp = e.score

\* C27 witness: one call has returned and its payload is indexed, while a
\* call of the same coordinates has replaced the payload and not yet
\* reached its TS.ADD.
C27_Witness ==
    /\ Len(inflight) = 2
    /\ inflight[1].state = "returned"
    /\ inflight[2].state = "running"
    /\ inflight[2].at = 2
    /\ KeyOf(inflight[1]) = KeyOf(inflight[2])
    /\ EntriesFor(redis, inflight[1]) # {}
    /\ redis.strings[KeyOf(inflight[1])].obj.userAddress = "U2"

\* C28 (as claimed): whenever a record call has finished, returned or
\* raised, its payload key exists exactly if the index of its (kind, pool)
\* holds an entry for it.
C28_AllOrNothing ==
    \A i \in 1..Len(inflight) :
        Finished(inflight[i]) =>
            (KeyOf(inflight[i]) \in DOMAIN redis.strings
                <=> EntriesFor(redis, inflight[i]) # {})

\* The values of f at the keys other than those of `keys` are the same in g,
\* and g has no key beyond those of f and `keys`.
SameExcept(f, g, keys) ==
    /\ DOMAIN f \ keys \subseteq DOMAIN g
    /\ DOMAIN g \subseteq DOMAIN f \cup keys
    /\ \A k \in DOMAIN f \ keys : g[k] = f[k]

\* C29: a command of a record call for (K, P, T) changes only the payload at
\* the key of (K, P, T), the index of (K, P) and the time series of (K, P);
\* in that index, the entries of other timestamps stay as they are.
C29_OnlyOwnKeys ==
    [][\A i \in 1..Len(inflight) :
          (Len(inflight') = Len(inflight) /\ inflight'[i] # inflight[i]) =>
              LET call == inflight[i]
                  Others(db) == IF IndexOf(call) \in DOMAIN db.zsets
                                THEN {e \in db.zsets[IndexOf(call)] :
                                         e.member # KeyOf(call)}
                                ELSE {}
              IN /\ SameExcept(redis.strings, redis'.strings, {KeyOf(call)})
                 /\ SameExcept(redis.zsets, redis'.zsets, {IndexOf(call)})
                 /\ SameExcept(redis.series, redis'.series, {SeriesOf(call)})
                 /\ Others(redis') = Others(redis)]_vars

\* C29 witness: a buy and a sell of pool P1 at timestamp 10 have both
\* returned, and each payload is stored under its own key and indexed.
C29_Witness ==
    /\ Len(inflight) = 2
    /\ Quiescent
    /\ inflight[1].type = "buy"
    /\ inflight[2].type = "sell"
    /\ inflight[1].pool = "P1" /\ inflight[2].pool = "P1"
    /\ inflight[1].timestamp = 10 /\ inflight[2].timestamp = 10
    /\ redis.strings[<<"cbmm-demo", "events", "buy", "P1", "10">>].obj.eventType = "buy"
    /\ redis.strings[<<"cbmm-demo", "events", "sell", "P1", "10">>].obj.eventType = "sell"
    /\ EntriesFor(redis, inflight[1]) # {}
    /\ EntriesFor(redis, inflight[2]) # {}

====
